---------------------------- MODULE Spec2Model ----------------------------
(***************************************************************************)
(* State-machine model of the v2 forgetting system: the decision engine,   *)
(* the strategy handlers, the budget / reversibility state, the learning   *)
(* optimizer, the hash-chained ledger and the orchestrator's process_item, *)
(* run by concurrent callers.                                              *)
(*                                                                         *)
(* Numbers.  Python floats are modelled in exact fixed point:              *)
(*   scores and weights in hundredths (0.55 -> 55),                        *)
(*   aggregate scores and thresholds in ten-thousandths (0.35 -> 3500),    *)
(*   sizes and utilization in millionths (1.0 -> 1000000),                 *)
(*   masking rates in hundred-thousandths (0.625 -> 62500).                *)
(* Absent metadata keys are modelled by FALSE (flags), "none" (strings)    *)
(* and Absent (numbers).                                                   *)
(***************************************************************************)
EXTENDS Integers, Sequences, FiniteSets, TLC

(* ------------------------------ bounds -------------------------------- *)

\* Number of concurrent callers (pool workers / queue workers).
NWorkers == 2
\* Total number of calls begun: process_item, log_error and log_constraint
\* calls, and direct calls on the shared state objects (advance,
\* record_usage, LearningOptimizer.update).
MaxCalls == 2
\* Length of the list given to process_batch and process_batch_parallel.
MaxBatch == 3
\* Number of tasks submitted to the work queue.
MaxTasks == 2

\* Item ids known to the storage adapter, and the last clock reading.
MaxIds == 2
MaxTime == 2

\* LearningOptimizer.update calls in one behaviour of the optimizer alone.
MaxUpdates == 5
\* Names in one dimensions list given to calculate_4d_masking_ratio.
MaxDims == 4

Workers == 1..NWorkers

(* ------------------------- fixed-point scales ------------------------- *)

Micro == 1000000
Absent == -1

Max(a, b) == IF a >= b THEN a ELSE b
Min(a, b) == IF a <= b THEN a ELSE b

(* ------------------------- program constants -------------------------- *)

StorageBudget == 1000000
RiskKeepThreshold == 70
SemanticCut == 55
ImportanceCut == 45
GateStage == 7
DestroyStage == 9

DefaultWeights ==
  [importance |-> 30, usage |-> 25, semantic |-> 20, temporal |-> 15,
   context |-> 10, risk |-> 0, redundancy |-> 0]

DefaultThresholds ==
  [preserve |-> 6000, compress |-> 5000, mask |-> 3500, archive |-> 2000]

\* strategies/masking.py MASKING_PROFILES: profile -> mask_rate (1e-5).
MaskRate(profile) ==
  CASE profile = "X" -> 50000
    [] profile = "Y" -> 25000
    [] profile = "Z" -> 33000
    [] profile = "T" -> 66000
    [] profile = "X+Y" -> 62500
    [] profile = "X+Z" -> 66500
    [] profile = "X+T" -> 83000
    [] profile = "Y+Z" -> 49250
    [] profile = "Y+T" -> 74500
    [] profile = "Z+T" -> 77780
    [] profile = "X+Y+Z" -> 74125
    [] profile = "X+Y+T" -> 89125
    [] profile = "X+Z+T" -> 94445
    [] profile = "Y+Z+T" -> 86335
    [] profile = "X+Y+Z+T" -> 96667
    [] OTHER -> 62500

\* core/strategy_registry.py build_default_registry: the registered actions.
Registry ==
  {"compress", "semantic_preserve", "preserve", "mask", "archive", "delete",
   "key_destroy", "retain"}


(* --------------------------- decision engine -------------------------- *)

\* DecisionEngine._aggregate: weighted sum over every weight key, then the
\* redundancy penalty and the risk bonus, clipped to [0, 1].
Aggregate(sc) ==
  LET base == DefaultWeights.importance * sc.importance
            + DefaultWeights.usage * sc.usage
            + DefaultWeights.semantic * sc.semantic
            + DefaultWeights.temporal * sc.temporal
            + DefaultWeights.context * sc.context
            + DefaultWeights.risk * sc.risk
            + DefaultWeights.redundancy * sc.redundancy
      adjusted == base - 25 * sc.redundancy + 20 * sc.risk
  IN  Max(0, Min(10000, adjusted))

\* DecisionEngine._budget_pressure on the budget dict of the snapshot.
BudgetPressure(storage_used) == storage_used >= StorageBudget

\* StrategyPlan(action, params, rationale, target_stage); params is modelled
\* by its two keys, profile ("none": no such key) and lossy.
Plan(action, profile, lossy, rationale, target) ==
  [action |-> action, profile |-> profile, lossy |-> lossy,
   rationale |-> rationale, target_stage |-> target]

NoPlan == Plan("none", "none", FALSE, "none", Absent)

\* meta.get("mask_profile", "X+Y")
RequestedProfile(m) == IF m.mask_profile = "none" THEN "X+Y" ELSE m.mask_profile

\* The class-policy branch: pol.get("action", "retain"), pol.get("params", {}).
ClassPolicyPlan(pol) ==
  Plan(IF pol.action = "none" THEN "retain" ELSE pol.action,
       pol.profile, pol.lossy, "Class policy", Absent)

\* The irreversibility gate (reversibility snapshot >= 7).
GatePlanNoTokenCheck(m) ==
  IF m.allow_irreversible
  THEN Plan("key_destroy", "none", FALSE, "Irreversible gate approved", DestroyStage)
  ELSE Plan("retain", "none", FALSE, "Irreversible gate blocked", Absent)
GatePlan(m) ==
  IF m.allow_irreversible
  THEN IF ~m.approval_token
       THEN Plan("retain", "none", FALSE, "Irreversible requires approval token", Absent)
       ELSE Plan("key_destroy", "none", FALSE, "Irreversible gate approved", DestroyStage)
  ELSE Plan("retain", "none", FALSE, "Irreversible gate blocked", Absent)

\* The score thresholds, evaluated high to low.
ScorePlanDeleteAlways(sc, m, thr, pressure) ==
  LET agg == Aggregate(sc) IN
  IF agg >= thr.preserve THEN Plan("preserve", "none", FALSE, "High composite score", Absent)
  ELSE IF agg >= thr.compress
  THEN Plan("compress", "none", FALSE, "Mid score -> lossless compression", Absent)
  ELSE IF agg >= thr.mask
  THEN IF sc.semantic >= SemanticCut /\ sc.importance >= ImportanceCut
       THEN Plan("semantic_preserve", "none", FALSE,
                 "Semantic value high -> preserve summary", Absent)
       ELSE Plan("mask", RequestedProfile(m), FALSE, "Low-mid score -> masking", Absent)
  ELSE IF agg >= thr.archive
  THEN Plan("archive", "none", FALSE, "Very low score -> archive", Absent)
  ELSE Plan("delete", "none", FALSE, "Budget pressure -> delete", Absent)
ScorePlan(sc, m, thr, pressure) ==
  LET agg == Aggregate(sc) IN
  IF agg >= thr.preserve THEN Plan("preserve", "none", FALSE, "High composite score", Absent)
  ELSE IF agg >= thr.compress
  THEN Plan("compress", "none", FALSE, "Mid score -> lossless compression", Absent)
  ELSE IF agg >= thr.mask
  THEN IF sc.semantic >= SemanticCut /\ sc.importance >= ImportanceCut
       THEN Plan("semantic_preserve", "none", FALSE,
                 "Semantic value high -> preserve summary", Absent)
       ELSE Plan("mask", RequestedProfile(m), FALSE, "Low-mid score -> masking", Absent)
  ELSE IF agg >= thr.archive
  THEN Plan("archive", "none", FALSE, "Very low score -> archive", Absent)
  ELSE IF pressure
  THEN Plan("delete", "none", FALSE, "Budget pressure -> delete", Absent)
  ELSE Plan("archive", "none", FALSE, "Low score but no pressure -> archive", Absent)

\* The PII rule: TRUE when it returns a plan.
PiiRuleApplies(m, pii_on) ==
  pii_on /\ m.pii /\ (~m.allow_processing \/ ~m.approval_token)

PiiPlan(m) ==
  IF ~m.allow_processing
  THEN Plan("mask", RequestedProfile(m), FALSE, "PII protection", Absent)
  ELSE Plan("retain", "none", FALSE, "PII processing requires approval token", Absent)

\* DecisionEngine.select(scores, meta, budget_state, reversibility_state).
\* policies: the engine's class_policies; pii_on: its pii_protect;
\* storage_used: utilization["storage"] of the budget dict passed in;
\* rev: the reversibility stage passed in.
SelectHoldSecond(sc, m, thr, policies, pii_on, storage_used, rev) ==
  IF m.protected_class
  THEN Plan("preserve", "none", FALSE, "Protected class", Absent)
  ELSE IF m.regulatory_hold
  THEN Plan("retain", "none", FALSE, "Regulatory hold", Absent)
  ELSE IF m.class # "none" /\ m.class \in DOMAIN policies
  THEN ClassPolicyPlan(policies[m.class])
  ELSE IF PiiRuleApplies(m, pii_on)
  THEN PiiPlan(m)
  ELSE IF sc.risk >= RiskKeepThreshold /\ ~m.allow_processing
  THEN Plan("preserve", "none", FALSE, "High risk -> preserve", Absent)
  ELSE IF rev >= GateStage
  THEN GatePlan(m)
  ELSE ScorePlan(sc, m, thr, BudgetPressure(storage_used))
SelectNoPii(sc, m, thr, policies, pii_on, storage_used, rev) ==
  IF m.regulatory_hold
  THEN Plan("retain", "none", FALSE, "Regulatory hold", Absent)
  ELSE IF m.protected_class
  THEN Plan("preserve", "none", FALSE, "Protected class", Absent)
  ELSE IF m.class # "none" /\ m.class \in DOMAIN policies
  THEN ClassPolicyPlan(policies[m.class])
  ELSE IF sc.risk >= RiskKeepThreshold /\ ~m.allow_processing
  THEN Plan("preserve", "none", FALSE, "High risk -> preserve", Absent)
  ELSE IF rev >= GateStage
  THEN GatePlan(m)
  ELSE ScorePlan(sc, m, thr, BudgetPressure(storage_used))
SelectGateBeforeRisk(sc, m, thr, policies, pii_on, storage_used, rev) ==
  IF m.regulatory_hold
  THEN Plan("retain", "none", FALSE, "Regulatory hold", Absent)
  ELSE IF m.protected_class
  THEN Plan("preserve", "none", FALSE, "Protected class", Absent)
  ELSE IF m.class # "none" /\ m.class \in DOMAIN policies
  THEN ClassPolicyPlan(policies[m.class])
  ELSE IF PiiRuleApplies(m, pii_on)
  THEN PiiPlan(m)
  ELSE IF rev >= GateStage
  THEN GatePlan(m)
  ELSE IF sc.risk >= RiskKeepThreshold /\ ~m.allow_processing
  THEN Plan("preserve", "none", FALSE, "High risk -> preserve", Absent)
  ELSE ScorePlan(sc, m, thr, BudgetPressure(storage_used))
SelectGateAfterPreserve(sc, m, thr, policies, pii_on, storage_used, rev) ==
  IF m.regulatory_hold
  THEN Plan("retain", "none", FALSE, "Regulatory hold", Absent)
  ELSE IF m.protected_class
  THEN Plan("preserve", "none", FALSE, "Protected class", Absent)
  ELSE IF m.class # "none" /\ m.class \in DOMAIN policies
  THEN ClassPolicyPlan(policies[m.class])
  ELSE IF PiiRuleApplies(m, pii_on)
  THEN PiiPlan(m)
  ELSE IF sc.risk >= RiskKeepThreshold /\ ~m.allow_processing
  THEN Plan("preserve", "none", FALSE, "High risk -> preserve", Absent)
  ELSE IF Aggregate(sc) >= thr.preserve
  THEN Plan("preserve", "none", FALSE, "High composite score", Absent)
  ELSE IF rev >= GateStage
  THEN GatePlan(m)
  ELSE ScorePlan(sc, m, thr, BudgetPressure(storage_used))
Select(sc, m, thr, policies, pii_on, storage_used, rev) ==
  IF m.regulatory_hold
  THEN Plan("retain", "none", FALSE, "Regulatory hold", Absent)
  ELSE IF m.protected_class
  THEN Plan("preserve", "none", FALSE, "Protected class", Absent)
  ELSE IF m.class # "none" /\ m.class \in DOMAIN policies
  THEN ClassPolicyPlan(policies[m.class])
  ELSE IF PiiRuleApplies(m, pii_on)
  THEN PiiPlan(m)
  ELSE IF sc.risk >= RiskKeepThreshold /\ ~m.allow_processing
  THEN Plan("preserve", "none", FALSE, "High risk -> preserve", Absent)
  ELSE IF rev >= GateStage
  THEN GatePlan(m)
  ELSE ScorePlan(sc, m, thr, BudgetPressure(storage_used))

(* ---------------------- budget / reversibility ------------------------ *)

\* ReversibilityState.advance(new_stage), under its lock.
AdvanceAlwaysSet(st, new_stage) == new_stage
Advance(st, new_stage) == IF new_stage > st THEN new_stage ELSE st

\* BudgetState.record_usage(storage_delta, semantic_delta), under its lock.
RecordUsageNoFloor(u, storage_delta, semantic_delta) ==
  [storage |-> u.storage + storage_delta,
   semantic |-> u.semantic + semantic_delta]
RecordUsage(u, storage_delta, semantic_delta) ==
  [storage |-> Max(0, u.storage + storage_delta),
   semantic |-> Max(0, u.semantic + semantic_delta)]

(* ------------------------- learning optimizer ------------------------- *)

\* LearningOptimizer.update(feedback_event) with a decision engine attached:
\* the thresholds dict after the call (it is changed in place).
OptimizerUpdateNoCap(thr, event_type) ==
  IF event_type = "false_positive_delete"
  THEN [thr EXCEPT !.archive = thr.archive + 500, !.mask = thr.mask + 500]
  ELSE IF event_type = "unnecessary_retain"
  THEN [thr EXCEPT !.archive = thr.archive - 500, !.mask = thr.mask - 500]
  ELSE thr
OptimizerUpdateLearnsFromMask(thr, event_type) ==
  IF event_type \in {"false_positive_delete", "mask_applied"}
  THEN [thr EXCEPT !.archive = Min(4000, thr.archive + 500),
                   !.mask = Min(5000, thr.mask + 500)]
  ELSE IF event_type = "unnecessary_retain"
  THEN [thr EXCEPT !.archive = Max(1000, thr.archive - 500),
                   !.mask = Max(2500, thr.mask - 500)]
  ELSE thr
OptimizerUpdate(thr, event_type) ==
  IF event_type = "false_positive_delete"
  THEN [thr EXCEPT !.archive = Min(4000, thr.archive + 500),
                   !.mask = Min(5000, thr.mask + 500)]
  ELSE IF event_type = "unnecessary_retain"
  THEN [thr EXCEPT !.archive = Max(1000, thr.archive - 500),
                   !.mask = Max(2500, thr.mask - 500)]
  ELSE thr

(* --------------------------- strategy handlers ------------------------ *)

\* Each handler's apply is modelled by three operators: the stage after its
\* advance calls, the storage it reports as freed (the negative
\* storage_delta of its record_usage call), and its result dict.

\* float(meta.get("size_bytes", 1.0))
Size(m) == IF m.size_bytes = Absent THEN Micro ELSE m.size_bytes

\* float(meta.get("size_bytes", len(content) if content is a string else 1.0))
SizeOrContent(m) ==
  IF m.size_bytes # Absent THEN m.size_bytes
  ELSE IF m.content_len # Absent THEN m.content_len ELSE Micro

\* The result dict: status, the feedback event type, and the fields that
\* depend on the plan or on shared state.
Result(status, feedback, profile, mask_rate, stage_seen, compressed_size) ==
  [status |-> status, feedback |-> feedback, profile |-> profile,
   mask_rate |-> mask_rate, stage |-> stage_seen,
   compressed_size |-> compressed_size]

NoResult == Result("none", "none", "none", Absent, Absent, Absent)

\* PredictiveCaching.apply (registered for preserve and retain).
PredictiveCachingStage(st) == Advance(st, 0)
PredictiveCachingResult ==
  Result("retained", "cache_retain", "none", Absent, Absent, Absent)

\* GradualCompression.apply.
GradualCompressionStage(st, pl) ==
  IF pl.lossy THEN Advance(Advance(st, 1), 5) ELSE Advance(st, 1)
CompressedSize(m) ==
  IF m.content_len # Absent THEN m.gz_len ELSE SizeOrContent(m)
GradualCompressionSaved(pl, m) ==
  LET size == SizeOrContent(m)
      saved == Max(0, size - CompressedSize(m))
  IN  IF pl.lossy THEN Max(saved, (size * 3) \div 10) ELSE saved
GradualCompressionResult(pl, m) ==
  Result(IF pl.lossy THEN "compressed_lossy" ELSE "compressed_lossless",
         "compress_success", "none", Absent, Absent, CompressedSize(m))

\* Masking.apply: profile = plan.params.get("profile") or "X+Y".
MaskProfile(pl) == IF pl.profile = "none" THEN "X+Y" ELSE pl.profile
MaskingStage(st) == Advance(st, 4)
MaskingSaved(pl, m) == (Size(m) \div 200000) * MaskRate(MaskProfile(pl))
MaskingResult(pl) ==
  Result("masked", "mask_applied", MaskProfile(pl), MaskRate(MaskProfile(pl)),
         Absent, Absent)

\* SemanticPreservation.apply.
SemanticPreservationStage(st) == Advance(st, 6)
SemanticPreservationSaved(m) == (SizeOrContent(m) * 7) \div 10
SemanticPreservationResult ==
  Result("semantic_preserved", "semantic_preserve", "none", Absent, Absent, Absent)

\* Archive.apply: no advance call.
ArchiveSaved(m) == Size(m) \div 2
ArchiveResult == Result("archived", "archived", "none", Absent, Absent, Absent)

\* Delete.apply.
DeleteKeepsStage(st) == st
DeleteStage(st) == Advance(st, GateStage)
DeleteSaved(m) == Size(m)
DeleteResult == Result("deleted", "deleted", "none", Absent, Absent, Absent)

\* KeyDestroy.apply: returns "blocked" before any state change unless
\* meta["allow_irreversible"] is set.
KeyDestroyBlocked(m) == ~m.allow_irreversible
KeyDestroyStage(st, m) ==
  IF KeyDestroyBlocked(m) THEN st ELSE Advance(st, DestroyStage)
KeyDestroySaved(m) == Size(m)
KeyDestroyResult(m) ==
  IF KeyDestroyBlocked(m)
  THEN Result("blocked", "irreversible_blocked", "none", Absent, Absent, Absent)
  ELSE Result("key_destroyed", "irreversible_success", "none", Absent, Absent, Absent)

\* strategy_registry.get(plan.action).apply(...): the registered handler's
\* effect on the stage.
HandlerStage(st, pl, m) ==
  CASE pl.action \in {"preserve", "retain"} -> PredictiveCachingStage(st)
    [] pl.action = "compress" -> GradualCompressionStage(st, pl)
    [] pl.action = "mask" -> MaskingStage(st)
    [] pl.action = "semantic_preserve" -> SemanticPreservationStage(st)
    [] pl.action = "archive" -> st
    [] pl.action = "delete" -> DeleteStage(st)
    [] pl.action = "key_destroy" -> KeyDestroyStage(st, m)

\* TRUE when the registered handler calls budget_state.record_usage.
HandlerRecordsUsage(pl, m) ==
  \/ pl.action \in {"compress", "mask", "semantic_preserve", "archive", "delete"}
  \/ pl.action = "key_destroy" /\ ~KeyDestroyBlocked(m)

\* The storage the registered handler reports as freed.
HandlerSaved(pl, m) ==
  CASE pl.action = "compress" -> GradualCompressionSaved(pl, m)
    [] pl.action = "mask" -> MaskingSaved(pl, m)
    [] pl.action = "semantic_preserve" -> SemanticPreservationSaved(m)
    [] pl.action = "archive" -> ArchiveSaved(m)
    [] pl.action = "delete" -> DeleteSaved(m)
    [] pl.action = "key_destroy" -> KeyDestroySaved(m)
    [] OTHER -> 0

\* The registered handler's result.
HandlerResult(pl, m) ==
  CASE pl.action \in {"preserve", "retain"} -> PredictiveCachingResult
    [] pl.action = "compress" -> GradualCompressionResult(pl, m)
    [] pl.action = "mask" -> MaskingResult(pl)
    [] pl.action = "semantic_preserve" -> SemanticPreservationResult
    [] pl.action = "archive" -> ArchiveResult
    [] pl.action = "delete" -> DeleteResult
    [] pl.action = "key_destroy" -> KeyDestroyResult(m)

\* process_item's own budget accounting after the handler returned.
AccountDelta(pl, m) ==
  IF pl.action \in {"delete", "key_destroy"} THEN 0 - Size(m)
  ELSE IF pl.action \in {"compress", "mask", "archive", "semantic_preserve"}
  THEN 0 - (Size(m) \div 2)
  ELSE 0

(* ------------------------------- inputs ------------------------------- *)

Meta(hold, prot, class, pii, allowp, token, allowirr, profile, size, clen, gz) ==
  [regulatory_hold |-> hold, protected_class |-> prot, class |-> class,
   pii |-> pii, allow_processing |-> allowp, approval_token |-> token,
   allow_irreversible |-> allowirr, mask_profile |-> profile,
   size_bytes |-> size, content_len |-> clen, gz_len |-> gz]

NoMeta ==
  Meta(FALSE, FALSE, "none", FALSE, FALSE, FALSE, FALSE, "none", Absent, Absent, Absent)

Scores(imp, use, sem, tmp, cx, risk, red) ==
  [importance |-> imp, usage |-> use, semantic |-> sem, temporal |-> tmp,
   context |-> cx, risk |-> risk, redundancy |-> red]

Flat(v) == Scores(v, v, v, v, v, 0, 0)

NoScores == Flat(0)

\* Class policies of the configuration: class -> {action, params}.
Policy(action, profile, lossy) ==
  [action |-> action, profile |-> profile, lossy |-> lossy]

NoPolicies == [c \in {} |-> Policy("none", "none", FALSE)]

PolicyTable ==
  [pii |-> Policy("mask", "X+Y+T", FALSE),
   secret |-> Policy("key_destroy", "none", FALSE),
   bulk |-> Policy("compress", "none", TRUE),
   legacy |-> Policy("purge", "none", FALSE),
   plain |-> Policy("none", "none", FALSE)]

PolicyConfigs == {NoPolicies, PolicyTable}

\* The (meta, scores) pairs submitted to process_item in the concurrent and
\* the sequential specification: a high-value item, a PII item with a mask
\* profile, a low-value item of size 2.0, an item approved for irreversible
\* processing, and an item whose class policy names an unregistered action.
Items ==
  { [meta |-> NoMeta, scores |-> Flat(90)],
    [meta |-> Meta(FALSE, FALSE, "none", TRUE, FALSE, FALSE, FALSE, "X+T",
                   Absent, Absent, Absent),
     scores |-> Flat(40)],
    [meta |-> Meta(FALSE, FALSE, "none", FALSE, FALSE, FALSE, FALSE, "none",
                   2 * Micro, Absent, Absent),
     scores |-> Scores(10, 10, 10, 10, 10, 0, 100)],
    [meta |-> Meta(FALSE, FALSE, "none", FALSE, FALSE, TRUE, TRUE, "none",
                   Absent, Absent, Absent),
     scores |-> Flat(10)],
    [meta |-> Meta(FALSE, FALSE, "legacy", FALSE, FALSE, FALSE, FALSE, "none",
                   Absent, Absent, Absent),
     scores |-> Flat(25)] }

\* The inputs of the single-call specification: every combination of the
\* six metadata flags with a class and a mask profile, plus metas that
\* declare a size or carry content; score vectors in every threshold band,
\* on every threshold, and on both sides of the risk threshold.
WideMetas ==
  { Meta(h, p, c, i, a, t, r, mp, Absent, Absent, Absent) :
      h \in BOOLEAN, p \in BOOLEAN, c \in {"none", "secret", "legacy"},
      i \in BOOLEAN, a \in BOOLEAN, t \in BOOLEAN, r \in BOOLEAN,
      mp \in {"none", "X+T"} }
  \cup
  { Meta(FALSE, FALSE, c, FALSE, FALSE, FALSE, r, "Q", sz, cl[1], cl[2]) :
      c \in {"none", "pii", "bulk", "plain", "secret"}, r \in BOOLEAN,
      sz \in {Absent, 2 * Micro},
      cl \in {<<Absent, Absent>>, <<100 * Micro, 40 * Micro>>,
              <<4 * Micro, 24 * Micro>>} }

WideScores ==
  { Flat(90), Flat(60), Flat(55), Flat(50), Flat(40), Flat(35), Flat(25),
    Flat(20), Scores(50, 30, 60, 30, 30, 0, 0), Scores(10, 10, 10, 10, 10, 0, 100),
    Scores(0, 0, 0, 0, 0, 70, 0), Scores(10, 10, 10, 10, 10, 80, 0) }

WideStages == {0, GateStage, DestroyStage}
WideStorage == {StorageBudget - 1, StorageBudget, 3 * StorageBudget}

\* The items given to the batch runners and the work queue: a high-value
\* item, a low-value item, and an item of equal score whose class ("legacy")
\* has a policy naming an unregistered action in PolicyTable.
TaskItems ==
  { [meta |-> NoMeta, scores |-> Flat(90)],
    [meta |-> NoMeta, scores |-> Flat(25)],
    [meta |-> Meta(FALSE, FALSE, "legacy", FALSE, FALSE, FALSE, FALSE, "none",
                   Absent, Absent, Absent),
     scores |-> Flat(25)] }

\* A task: the (item, meta) pair and, for the work queue, whether its
\* callback raises.
Task(it, raises) == [item |-> it, cb_raises |-> raises]

\* The lists given to a batch runner.
Batches ==
  UNION { [1..n -> {Task(it, FALSE) : it \in TaskItems}] : n \in 0..MaxBatch }

\* The tasks submitted to the work queue: a low-value item with a callback
\* that returns, the same with a callback that raises, and an item whose
\* class policy names an unregistered action.
QueueTasks ==
  { Task([meta |-> NoMeta, scores |-> Flat(25)], FALSE),
    Task([meta |-> NoMeta, scores |-> Flat(25)], TRUE),
    Task([meta |-> Meta(FALSE, FALSE, "legacy", FALSE, FALSE, FALSE, FALSE,
                        "none", Absent, Absent, Absent),
          scores |-> Flat(25)], FALSE) }

\* Arguments of the direct calls on the shared objects.
AdvanceArgs == {GateStage}
UsageArgs == {<<2 * Micro, Micro>>, <<0 - Micro, 0 - Micro>>}
UpdateArgs == {"false_positive_delete", "unnecessary_retain", "threshold_adjust"}

(* ------------------------------- state -------------------------------- *)

VARIABLES
  stage,           \* ReversibilityState.stage
  utilization,     \* BudgetState.utilization: the one dict, changed in place
  thresholds,      \* DecisionEngine.thresholds: the one dict, changed in place
  class_policies,  \* DecisionEngine.class_policies (configuration)
  pii_protect,     \* DecisionEngine.pii_protect (configuration)
  events,          \* Ledger.events
  last_hash,       \* Ledger._last_hash
  pc,              \* per caller: the step of the call it is in
  meta,            \* per caller: the meta argument of process_item
  scores,          \* per caller: analyze's score vector
  ctx,             \* per caller: ctx_snapshot["reversibility_stage"]
  plan,            \* per caller: the plan select returned
  result,          \* per caller: the handler's result
  ser,             \* per caller: Ledger.log's serializable dict
  used0,           \* per caller (history): storage utilization at its snapshot
  batch,           \* the runner's input: the (item, meta, callback) tasks given to it
  order,           \* process_batch: the sorted list, as indices into batch
  queue,           \* WorkQueue.q / the pool's work queue: indices, 0 = None
  hand,            \* per worker: index of the task its call is for (0: none)
  fut,             \* per task: state of its future / of its callback
  results,         \* the runner's results list: the records returned
  begun,           \* (history) the tasks process_item was invoked on, in order
  done,            \* WorkQueue: <<task, worker>> for every task_done() call
  runner,          \* position of the runner's own thread
  stop_set,        \* WorkQueue._stop
  sentinels,       \* WorkQueue.stop: the None values it has put
  calls,           \* calls begun so far
  tiers,           \* the adapter's tiers: tier -> id -> content
  ttl_map,         \* the adapter's ttl_map: id -> absolute expiry time
  clock,           \* time.time()
  adapter,         \* the storage backend: "memory" or "local_fs"
  mv,              \* per thread: the LocalFSAdapter.move_to_tier call in progress
  given,           \* (history, in-memory adapter) per id: tier and expiry its latest move asked for
  swept,           \* (history) per id: a purge ran at or after that expiry
  removed,         \* the count the last purge_expired returned
  pipe,            \* ForgettingPipeline.run: its position
  cursor,          \* run: index of the zip pair in hand
  attempts,        \* _move_with_retry: move_to_tier calls made for the move in hand
  steps,           \* (history) the storage calls run has made, in order
  attached,        \* LearningOptimizer.decision_engine is set
  last_event,      \* LearningOptimizer.metrics["last_event"]
  updates,         \* (history) the event types given to LearningOptimizer.update
  dimensions,      \* calculate_4d_masking_ratio: its dimensions argument
  ratio,           \* calculate_4d_masking_ratio: the value returned (1e-8)
  quiet            \* (history) storage utilization has been below the budget since
                   \* the last external record_usage call with a positive delta

vars ==
  <<stage, utilization, thresholds, class_policies, pii_protect, events,
    last_hash, pc, meta, scores, ctx, plan, result, ser, used0, calls,
    batch, order, queue, hand, fut, results, begun, done, runner, stop_set, sentinels,
    tiers, ttl_map, clock, adapter, mv, given, swept, removed,
    pipe, cursor, attempts, steps, attached, last_event, updates,
    dimensions, ratio, quiet>>

shared == <<stage, utilization, thresholds>>
config == <<class_policies, pii_protect>>
ledger == <<events, last_hash>>
locals == <<meta, scores, ctx, plan, result, ser, used0>>
harness ==
  <<batch, order, queue, hand, fut, results, begun, done, runner, stop_set,
    sentinels>>
store == <<tiers, ttl_map, clock, adapter, mv, given, swept, removed>>
pipeline == <<pipe, cursor, attempts, steps>>
optimizer == <<attached, last_event, updates>>
masking == <<dimensions, ratio>>

(* ------------------------------- ledger ------------------------------- *)

\* SHA-256 of the serialized payload, as an injective function of the
\* payload (no collisions); the empty string is the empty sequence.
EmptyHash == <<>>
Hash(payload) == <<payload>>

NoSer == [event |-> [type |-> "none"], prev_hash |-> EmptyHash, hash |-> EmptyHash]

\* The record process_item assembles.  ctx_snapshot holds the stage by value
\* and BudgetState.to_dict(), whose "utilization" is the live dict itself;
\* "policy" holds the engine's live thresholds dict.  Those two references
\* are not stored here: Payload reads them through.
ItemRecord(w) ==
  [type |-> "record", scores |-> scores[w], plan |-> plan[w],
   result |-> result[w], reversibility_stage |-> ctx[w],
   meta |-> [k \in (DOMAIN meta[w]) \ {"content_len", "gz_len"} |-> meta[w][k]],
   constraints |->
     [regulatory_hold |-> meta[w].regulatory_hold,
      protected_class |-> meta[w].protected_class,
      pii |-> meta[w].pii,
      allow_irreversible |-> meta[w].allow_irreversible,
      approval_token |-> meta[w].approval_token]]

\* What json.dumps(serializable) reads for an entry (its fields without
\* "hash"), in the current state: a record's utilization and thresholds are
\* whatever the live dicts hold now.
Payload(e) ==
  IF e.event.type = "record"
  THEN [event |-> e.event, prev_hash |-> e.prev_hash,
        budget_state |-> [storage_budget |-> StorageBudget,
                          semantic_budget |-> Micro,
                          utilization |-> utilization],
        policy |-> [thresholds |-> thresholds, class_policies |-> class_policies]]
  ELSE [event |-> e.event, prev_hash |-> e.prev_hash]

(* ------------------------------ actions ------------------------------- *)

\* The ids, the tier names of the in-memory adapter, and the directory
\* names the filesystem adapter can be asked for.
ItemIds == 1..MaxIds
Tiers == {"hot", "warm", "cold"}
Dirs == Tiers \cup {"glacier"}

NotMoved == [tier |-> "none", due |-> Absent]
NoMove == [id |-> Absent, ttl |-> Absent]

\* A new adapter: empty tiers, empty ttl_map; no call in progress.
EmptyStore ==
  /\ tiers = [t \in Dirs |-> [id \in ItemIds |-> Absent]]
  /\ ttl_map = [id \in ItemIds |-> Absent]
  /\ clock = 0
  /\ mv = [w \in Workers |-> NoMove]
  /\ given = [id \in ItemIds |-> NotMoved]
  /\ swept = [id \in ItemIds |-> FALSE]
  /\ removed = Absent

\* calculate_4d_masking_ratio has not been called.
NoRatio ==
  /\ dimensions = <<>>
  /\ ratio = Absent

\* No pipeline run in progress.
PipelineIdle ==
  /\ pipe = "none"
  /\ cursor = 0
  /\ attempts = 0
  /\ steps = <<>>

\* build_system: LearningOptimizer(decision_engine=decision), no event yet.
OptimizerBuilt ==
  /\ attached = TRUE
  /\ last_event = "none"
  /\ updates = <<>>

\* The forgetting system used without a pipeline: the storage adapter is
\* built (in memory) and never called.
Detached ==
  /\ EmptyStore
  /\ NoRatio
  /\ adapter = "memory"
  /\ PipelineIdle
  /\ OptimizerBuilt

\* No batch runner and no work queue: process_item is called directly.
NoRunner ==
  /\ batch = <<>>
  /\ order = <<>>
  /\ queue = <<>>
  /\ hand = [w \in Workers |-> 0]
  /\ fut = <<>>
  /\ results = <<>>
  /\ begun = <<>>
  /\ done = {}
  /\ runner = "none"
  /\ stop_set = FALSE
  /\ sentinels = 0

\* Where a caller continues when its process_item or log call returns, and
\* when process_item raises: a direct call ends; a call made by a runner
\* goes back into the runner's code.
AfterCall(w) ==
  IF hand[w] = 0 THEN "idle"
  ELSE IF ser[w].event.type = "error" THEN "task_done" ELSE "returned"
AfterRaise(w) == IF hand[w] = 0 THEN "idle" ELSE "failed"

\* The state after construction: ContextManager(), DecisionEngine with the
\* default thresholds, an empty Ledger, every caller idle.
Fresh ==
  /\ stage = 0
  /\ utilization = [storage |-> 0, semantic |-> 0]
  /\ quiet = TRUE
  /\ thresholds = DefaultThresholds
  /\ class_policies \in PolicyConfigs
  /\ pii_protect = TRUE
  /\ events = <<>>
  /\ last_hash = EmptyHash
  /\ pc = [w \in Workers |-> "idle"]
  /\ meta = [w \in Workers |-> NoMeta]
  /\ scores = [w \in Workers |-> NoScores]
  /\ ctx = [w \in Workers |-> Absent]
  /\ used0 = [w \in Workers |-> Absent]
  /\ plan = [w \in Workers |-> NoPlan]
  /\ result = [w \in Workers |-> NoResult]
  /\ ser = [w \in Workers |-> NoSer]
  /\ calls = 0

Init == Fresh /\ NoRunner /\ Detached

\* The history of the budget after a record_usage call with this storage
\* delta: a positive delta starts it anew.
StillQuiet(q, u, storage_delta) ==
  IF storage_delta > 0 THEN u.storage < StorageBudget
  ELSE q \/ u.storage < StorageBudget

\* A caller enters process_item(item, meta); analyze has produced the scores.
BeginProcess(w) ==
  /\ pc[w] = "idle"
  /\ calls < MaxCalls
  /\ \E it \in Items :
       /\ meta' = [meta EXCEPT ![w] = it.meta]
       /\ scores' = [scores EXCEPT ![w] = it.scores]
  /\ pc' = [pc EXCEPT ![w] = "snapshot"]
  /\ calls' = calls + 1
  /\ UNCHANGED <<shared, config, masking, quiet, store, pipeline, optimizer, ledger, ctx, used0, plan, result, ser,
                 harness>>

\* A caller enters Ledger.log_error(message, context).
BeginLogError(w) ==
  /\ pc[w] = "idle"
  /\ calls < MaxCalls
  /\ ser' = [ser EXCEPT ![w] =
               [event |-> [type |-> "error", message |-> "worker_failure"],
                prev_hash |-> EmptyHash, hash |-> EmptyHash]]
  /\ pc' = [pc EXCEPT ![w] = "log_read"]
  /\ calls' = calls + 1
  /\ UNCHANGED <<shared, config, masking, quiet, store, pipeline, optimizer, ledger, meta, scores, ctx, used0, plan, result,
                 harness>>

\* A caller enters Ledger.log_constraint(name, passed, detail).
BeginLogConstraint(w) ==
  /\ pc[w] = "idle"
  /\ calls < MaxCalls
  /\ ser' = [ser EXCEPT ![w] =
               [event |-> [type |-> "constraint", name |-> "budget",
                           passed |-> FALSE],
                prev_hash |-> EmptyHash, hash |-> EmptyHash]]
  /\ pc' = [pc EXCEPT ![w] = "log_read"]
  /\ calls' = calls + 1
  /\ UNCHANGED <<shared, config, masking, quiet, store, pipeline, optimizer, ledger, meta, scores, ctx, used0, plan, result,
                 harness>>

\* ctx_snapshot = context_manager.snapshot(): the stage is copied, the
\* utilization dict is shared.
Snapshot(w) ==
  /\ pc[w] = "snapshot"
  /\ ctx' = [ctx EXCEPT ![w] = stage]
  /\ used0' = [used0 EXCEPT ![w] = utilization.storage]
  /\ pc' = [pc EXCEPT ![w] = "select"]
  /\ UNCHANGED <<shared, config, masking, quiet, store, pipeline, optimizer, ledger, meta, scores, plan, result, ser, calls,
                 harness>>

\* plan = decision_engine.select(...), then the registry lookup.
DecideIgnoresUnknown(w) ==
  /\ pc[w] = "select"
  /\ LET pl == Select(scores[w], meta[w], thresholds, class_policies,
                      pii_protect, utilization.storage, ctx[w])
     IN  /\ plan' = [plan EXCEPT ![w] = pl]
         /\ pc' = [pc EXCEPT ![w] =
                     IF pl.action \in Registry THEN "apply" ELSE "account"]
  /\ UNCHANGED <<shared, config, masking, quiet, store, pipeline, optimizer, ledger, meta, scores, ctx, used0, result, ser, calls,
                 harness>>
Decide(w) ==
  /\ pc[w] = "select"
  /\ LET pl == Select(scores[w], meta[w], thresholds, class_policies,
                      pii_protect, utilization.storage, ctx[w])
     IN  /\ plan' = [plan EXCEPT ![w] = pl]
         /\ pc' = [pc EXCEPT ![w] =
                     IF pl.action \in Registry THEN "apply" ELSE "raised"]
  /\ UNCHANGED <<shared, config, masking, quiet, store, pipeline, optimizer, ledger, meta, scores, ctx, used0, result, ser, calls,
                 harness>>

\* raise ValueError("Unknown strategy"): the call ends without a handler,
\* accounting or ledger entry.
Raise(w) ==
  /\ pc[w] = "raised"
  /\ pc' = [pc EXCEPT ![w] = AfterRaise(w)]
  /\ meta' = [meta EXCEPT ![w] = NoMeta]
  /\ scores' = [scores EXCEPT ![w] = NoScores]
  /\ ctx' = [ctx EXCEPT ![w] = Absent]
  /\ used0' = [used0 EXCEPT ![w] = Absent]
  /\ plan' = [plan EXCEPT ![w] = NoPlan]
  /\ UNCHANGED <<shared, config, masking, quiet, store, pipeline, optimizer, ledger, result, ser, calls,
                 harness>>

\* strategy.apply, first part: the handler's advance calls and its result.
Apply(w) ==
  /\ pc[w] = "apply"
  /\ stage' = HandlerStage(stage, plan[w], meta[w])
  /\ result' = [result EXCEPT ![w] = HandlerResult(plan[w], meta[w])]
  /\ pc' = [pc EXCEPT ![w] =
              IF HandlerRecordsUsage(plan[w], meta[w]) THEN "usage" ELSE "account"]
  /\ UNCHANGED <<utilization, thresholds, config, masking, quiet, store, pipeline, optimizer, ledger, meta, scores, ctx, used0,
                 plan, ser, calls,
                 harness>>

\* strategy.apply, second part: the handler's record_usage; the compression
\* handler then reads the stage into its result.
Usage(w) ==
  /\ pc[w] = "usage"
  /\ utilization' = RecordUsage(utilization, 0 - HandlerSaved(plan[w], meta[w]), 0)
  /\ quiet' = StillQuiet(quiet, utilization', 0 - HandlerSaved(plan[w], meta[w]))
  /\ result' = [result EXCEPT ![w].stage =
                  IF plan[w].action = "compress" THEN stage ELSE Absent]
  /\ pc' = [pc EXCEPT ![w] = "account"]
  /\ UNCHANGED <<stage, thresholds, config, masking, store, pipeline, optimizer, ledger, meta, scores, ctx, used0, plan,
                 ser, calls,
                 harness>>

\* learning_optimizer.update(feedback), process_item's own record_usage, and
\* the record handed to the ledger.
Account(w) ==
  /\ pc[w] = "account"
  /\ thresholds' = OptimizerUpdate(thresholds, result[w].feedback)
  /\ utilization' = RecordUsage(utilization, AccountDelta(plan[w], meta[w]), 0)
  /\ quiet' = StillQuiet(quiet, utilization', AccountDelta(plan[w], meta[w]))
  /\ ser' = [ser EXCEPT ![w] =
               [event |-> ItemRecord(w), prev_hash |-> EmptyHash,
                hash |-> EmptyHash]]
  /\ pc' = [pc EXCEPT ![w] = "log_read"]
  /\ UNCHANGED <<stage, config, masking, store, pipeline, optimizer, ledger, meta, scores, ctx, used0, plan, result, calls,
                 harness>>

\* Ledger.log: serializable["prev_hash"] = self._last_hash
LogRead(w) ==
  /\ pc[w] = "log_read"
  /\ ser' = [ser EXCEPT ![w].prev_hash = last_hash]
  /\ pc' = [pc EXCEPT ![w] = "log_hash"]
  /\ UNCHANGED <<shared, config, masking, quiet, store, pipeline, optimizer, ledger, meta, scores, ctx, used0, plan, result, calls,
                 harness>>

\* Ledger.log: payload = json.dumps(serializable); self._last_hash = sha256;
\* serializable["hash"] = self._last_hash
LogHashStale(w) ==
  /\ pc[w] = "log_hash"
  /\ ser' = [ser EXCEPT ![w].hash = Hash(Payload(ser[w]))]
  /\ pc' = [pc EXCEPT ![w] = "log_append"]
  /\ UNCHANGED <<shared, config, masking, quiet, store, pipeline, optimizer, ledger, meta, scores, ctx, used0, plan, result, calls,
                 harness>>
LogHash(w) ==
  /\ pc[w] = "log_hash"
  /\ LET h == Hash(Payload(ser[w]))
     IN  /\ last_hash' = h
         /\ ser' = [ser EXCEPT ![w].hash = h]
  /\ pc' = [pc EXCEPT ![w] = "log_append"]
  /\ UNCHANGED <<shared, config, masking, quiet, store, pipeline, optimizer, events, meta, scores, ctx, used0, plan, result, calls,
                 harness>>

\* Ledger.log: self.events.append(serializable); the call returns.  A
\* process_item call made by a runner returns its record to the runner: the
\* caller's meta, scores, plan and result stay until the runner has used them.
LogAppendDropsEntry(w) ==
  /\ pc[w] = "log_append"
  /\ events' = events
  /\ pc' = [pc EXCEPT ![w] = AfterCall(w)]
  /\ IF AfterCall(w) = "returned"
     THEN UNCHANGED <<meta, scores, plan, result>>
     ELSE /\ meta' = [meta EXCEPT ![w] = NoMeta]
          /\ scores' = [scores EXCEPT ![w] = NoScores]
          /\ plan' = [plan EXCEPT ![w] = NoPlan]
          /\ result' = [result EXCEPT ![w] = NoResult]
  /\ ctx' = [ctx EXCEPT ![w] = Absent]
  /\ used0' = [used0 EXCEPT ![w] = Absent]
  /\ ser' = [ser EXCEPT ![w] = NoSer]
  /\ UNCHANGED <<shared, config, masking, quiet, store, pipeline, optimizer, last_hash, calls,
                 harness>>
LogAppend(w) ==
  /\ pc[w] = "log_append"
  /\ events' = Append(events, ser[w])
  /\ pc' = [pc EXCEPT ![w] = AfterCall(w)]
  /\ IF AfterCall(w) = "returned"
     THEN UNCHANGED <<meta, scores, plan, result>>
     ELSE /\ meta' = [meta EXCEPT ![w] = NoMeta]
          /\ scores' = [scores EXCEPT ![w] = NoScores]
          /\ plan' = [plan EXCEPT ![w] = NoPlan]
          /\ result' = [result EXCEPT ![w] = NoResult]
  /\ ctx' = [ctx EXCEPT ![w] = Absent]
  /\ used0' = [used0 EXCEPT ![w] = Absent]
  /\ ser' = [ser EXCEPT ![w] = NoSer]
  /\ UNCHANGED <<shared, config, masking, quiet, store, pipeline, optimizer, last_hash, calls,
                 harness>>

\* The record process_item returned to a runner, and the runner letting go
\* of it.
ReturnedRecord(w) ==
  [meta |-> meta[w], scores |-> scores[w], plan |-> plan[w], result |-> result[w]]

DropRecord(w) ==
  /\ meta' = [meta EXCEPT ![w] = NoMeta]
  /\ scores' = [scores EXCEPT ![w] = NoScores]
  /\ plan' = [plan EXCEPT ![w] = NoPlan]
  /\ result' = [result EXCEPT ![w] = NoResult]

\* Direct calls on the shared objects by the embedding program.
ExtAdvance ==
  /\ calls < MaxCalls
  /\ \E n \in AdvanceArgs : stage' = Advance(stage, n)
  /\ calls' = calls + 1
  /\ UNCHANGED <<utilization, thresholds, config, masking, quiet, store, pipeline, optimizer, ledger, pc, locals,
                 harness>>

ExtRecordUsage ==
  /\ calls < MaxCalls
  /\ \E d \in UsageArgs :
       /\ utilization' = RecordUsage(utilization, d[1], d[2])
       /\ quiet' = StillQuiet(quiet, utilization', d[1])
  /\ calls' = calls + 1
  /\ UNCHANGED <<stage, thresholds, config, masking, store, pipeline, optimizer, ledger, pc, locals,
                 harness>>

ExtUpdate ==
  /\ calls < MaxCalls
  /\ \E ev \in UpdateArgs : thresholds' = OptimizerUpdate(thresholds, ev)
  /\ calls' = calls + 1
  /\ UNCHANGED <<stage, utilization, config, masking, quiet, store, pipeline, optimizer, ledger, pc, locals,
                 harness>>

\* Concurrent callers (thread pool, queue workers): any interleaving.
Next ==
  \/ \E w \in Workers : BeginProcess(w)
  \/ \E w \in Workers : BeginLogError(w)
  \/ \E w \in Workers : BeginLogConstraint(w)
  \/ \E w \in Workers : Snapshot(w)
  \/ \E w \in Workers : Decide(w)
  \/ \E w \in Workers : Raise(w)
  \/ \E w \in Workers : Apply(w)
  \/ \E w \in Workers : Usage(w)
  \/ \E w \in Workers : Account(w)
  \/ \E w \in Workers : LogRead(w)
  \/ \E w \in Workers : LogHash(w)
  \/ \E w \in Workers : LogAppend(w)
  \/ ExtAdvance
  \/ ExtRecordUsage
  \/ ExtUpdate

Spec == Init /\ [][Next]_vars

\* Calls issued one at a time: a call begins, and a direct call is made,
\* only while no call is in progress.
AllIdle == \A v \in Workers : pc[v] = "idle"

SeqNext ==
  \/ \E w \in Workers : AllIdle /\ BeginProcess(w)
  \/ \E w \in Workers : AllIdle /\ BeginLogError(w)
  \/ \E w \in Workers : AllIdle /\ BeginLogConstraint(w)
  \/ \E w \in Workers : Snapshot(w)
  \/ \E w \in Workers : Decide(w)
  \/ \E w \in Workers : Raise(w)
  \/ \E w \in Workers : Apply(w)
  \/ \E w \in Workers : Usage(w)
  \/ \E w \in Workers : Account(w)
  \/ \E w \in Workers : LogRead(w)
  \/ \E w \in Workers : LogHash(w)
  \/ \E w \in Workers : LogAppend(w)
  \/ AllIdle /\ ExtAdvance
  \/ AllIdle /\ ExtRecordUsage
  \/ AllIdle /\ ExtUpdate

SeqSpec == Init /\ [][SeqNext]_vars

\* One process_item call on any input, in any configuration, from any stage
\* and on either side of the storage budget, run to its end.
WideInit ==
  /\ stage \in WideStages
  /\ utilization \in [storage : WideStorage, semantic : {0}]
  /\ quiet = (utilization.storage < StorageBudget)
  /\ thresholds = DefaultThresholds
  /\ class_policies \in PolicyConfigs
  /\ pii_protect \in BOOLEAN
  /\ events = <<>>
  /\ last_hash = EmptyHash
  /\ pc = [w \in Workers |-> IF w = 1 THEN "snapshot" ELSE "idle"]
  /\ \E m \in WideMetas : meta = [w \in Workers |-> IF w = 1 THEN m ELSE NoMeta]
  /\ \E sc \in WideScores :
       scores = [w \in Workers |-> IF w = 1 THEN sc ELSE NoScores]
  /\ ctx = [w \in Workers |-> Absent]
  /\ used0 = [w \in Workers |-> Absent]
  /\ NoRunner
  /\ Detached
  /\ plan = [w \in Workers |-> NoPlan]
  /\ result = [w \in Workers |-> NoResult]
  /\ ser = [w \in Workers |-> NoSer]
  /\ calls = MaxCalls

WideNext ==
  \/ \E w \in Workers : Snapshot(w)
  \/ \E w \in Workers : Decide(w)
  \/ \E w \in Workers : Raise(w)
  \/ \E w \in Workers : Apply(w)
  \/ \E w \in Workers : Usage(w)
  \/ \E w \in Workers : Account(w)
  \/ \E w \in Workers : LogRead(w)
  \/ \E w \in Workers : LogHash(w)
  \/ \E w \in Workers : LogAppend(w)

WideSpec == WideInit /\ [][WideNext]_vars

(* ---------------------------- process_batch --------------------------- *)

\* The thread that calls process_batch.
Caller == 1

\* agg of the pre-scoring loop for the i-th input pair.
BatchScore(b, i) == Aggregate(b[i].item.scores)

\* scored.sort(key=lambda t: t[0]): a stable ascending sort, here by
\* insertion: i goes behind every element whose score is not greater.
RECURSIVE InsertByScore(_, _, _)
InsertByScore(sorted, i, b) ==
  IF sorted = <<>> THEN <<i>>
  ELSE IF BatchScore(b, Head(sorted)) <= BatchScore(b, i)
  THEN <<Head(sorted)>> \o InsertByScore(Tail(sorted), i, b)
  ELSE <<i>> \o sorted

RECURSIVE SortPrefix(_, _)
SortPrefix(b, n) ==
  IF n = 0 THEN <<>> ELSE InsertByScore(SortPrefix(b, n - 1), n, b)

SortedByScoreInputOrder(b) == [i \in 1..Len(b) |-> i]
SortedByScore(b) == SortPrefix(b, Len(b))

\* process_batch(system, items) is called on a fresh system.
BatchInit ==
  /\ Fresh
  /\ Detached
  /\ batch \in Batches
  /\ order = <<>>
  /\ queue = <<>>
  /\ hand = [w \in Workers |-> 0]
  /\ fut = <<>>
  /\ results = <<>>
  /\ begun = <<>>
  /\ done = {}
  /\ runner = "start"
  /\ stop_set = FALSE
  /\ sentinels = 0

\* The pre-scoring loop and the sort.
BatchSort ==
  /\ runner = "start"
  /\ order' = SortedByScore(batch)
  /\ runner' = "run"
  /\ UNCHANGED <<shared, config, masking, quiet, store, pipeline, optimizer, ledger, pc, locals, calls, batch, queue, hand,
                 fut, results, begun, done, stop_set,
                 sentinels>>

\* The processing loop calls system.process_item on the next element.
BatchCall ==
  /\ runner = "run"
  /\ pc[Caller] = "idle"
  /\ Len(results) < Len(order)
  /\ LET i == order[Len(results) + 1]
     IN  /\ hand' = [hand EXCEPT ![Caller] = i]
         /\ meta' = [meta EXCEPT ![Caller] = batch[i].item.meta]
         /\ scores' = [scores EXCEPT ![Caller] = batch[i].item.scores]
         /\ begun' = Append(begun, i)
  /\ pc' = [pc EXCEPT ![Caller] = "snapshot"]
  /\ UNCHANGED <<shared, config, masking, quiet, store, pipeline, optimizer, ledger, ctx, used0, plan, result, ser, calls,
                 batch, order, queue, fut, results, done, runner, stop_set,
                 sentinels>>

\* results.append(...) of the record process_item returned.
BatchAppend ==
  /\ runner = "run"
  /\ pc[Caller] = "returned"
  /\ results' = Append(results, ReturnedRecord(Caller))
  /\ DropRecord(Caller)
  /\ hand' = [hand EXCEPT ![Caller] = 0]
  /\ pc' = [pc EXCEPT ![Caller] = "idle"]
  /\ UNCHANGED <<shared, config, masking, quiet, store, pipeline, optimizer, ledger, ctx, used0, ser, calls, batch, order,
                 queue, fut, begun, done, runner, stop_set,
                 sentinels>>

\* process_item raised: nothing catches it, process_batch ends with the
\* exception.
BatchRaise ==
  /\ runner = "run"
  /\ pc[Caller] = "failed"
  /\ runner' = "raised"
  /\ hand' = [hand EXCEPT ![Caller] = 0]
  /\ pc' = [pc EXCEPT ![Caller] = "idle"]
  /\ UNCHANGED <<shared, config, masking, quiet, store, pipeline, optimizer, ledger, locals, calls, batch, order, queue,
                 fut, results, begun, done, stop_set,
                 sentinels>>

\* return results
BatchReturn ==
  /\ runner = "run"
  /\ pc[Caller] = "idle"
  /\ Len(results) = Len(order)
  /\ runner' = "returned"
  /\ UNCHANGED <<shared, config, masking, quiet, store, pipeline, optimizer, ledger, pc, locals, calls, batch, order, queue,
                 hand, fut, results, begun, done, stop_set,
                 sentinels>>

BatchNext ==
  \/ BatchSort
  \/ BatchCall
  \/ BatchAppend
  \/ BatchRaise
  \/ BatchReturn
  \/ \E w \in Workers : Snapshot(w)
  \/ \E w \in Workers : Decide(w)
  \/ \E w \in Workers : Raise(w)
  \/ \E w \in Workers : Apply(w)
  \/ \E w \in Workers : Usage(w)
  \/ \E w \in Workers : Account(w)
  \/ \E w \in Workers : LogRead(w)
  \/ \E w \in Workers : LogHash(w)
  \/ \E w \in Workers : LogAppend(w)

BatchSpec == BatchInit /\ [][BatchNext]_vars

(* ------------------------ process_batch_parallel ---------------------- *)

\* A future of the pool: its state and, once done, the record it holds.
NoRecord == [meta |-> NoMeta, scores |-> NoScores, plan |-> NoPlan, result |-> NoResult]
Future(state, rec) == [state |-> state, rec |-> rec]

\* process_batch_parallel(system, items, max_workers) is called on a fresh
\* system; the pool has NWorkers threads.
ParInit ==
  /\ Fresh
  /\ Detached
  /\ batch \in Batches
  /\ order = <<>>
  /\ queue = <<>>
  /\ hand = [w \in Workers |-> 0]
  /\ fut = <<>>
  /\ results = <<>>
  /\ begun = <<>>
  /\ done = {}
  /\ runner = "start"
  /\ stop_set = FALSE
  /\ sentinels = 0

\* ex.map(worker, items_list): one future per pair, queued in input order.
ParSubmit ==
  /\ runner = "start"
  /\ queue' = [i \in 1..Len(batch) |-> i]
  /\ fut' = [i \in 1..Len(batch) |-> Future("pending", NoRecord)]
  /\ runner' = "collect"
  /\ UNCHANGED <<shared, config, masking, quiet, store, pipeline, optimizer, ledger, pc, locals, calls, batch, order, hand,
                 results, begun, done, stop_set,
                 sentinels>>

\* A pool thread takes the next work item; a cancelled one is skipped, any
\* other is run: worker(pair) calls system.process_item(item, meta).
PoolTakeKeepQueued(w) ==
  /\ runner \in {"collect", "raising"}
  /\ pc[w] = "idle"
  /\ queue # <<>>
  /\ LET i == Head(queue)
     IN  IF fut[i].state = "cancelled"
         THEN /\ queue' = Tail(queue)
              /\ UNCHANGED <<pc, meta, scores, hand, fut, begun>>
         ELSE /\ queue' = queue
              /\ fut' = [fut EXCEPT ![i].state = "running"]
              /\ hand' = [hand EXCEPT ![w] = i]
              /\ meta' = [meta EXCEPT ![w] = batch[i].item.meta]
              /\ scores' = [scores EXCEPT ![w] = batch[i].item.scores]
              /\ begun' = Append(begun, i)
              /\ pc' = [pc EXCEPT ![w] = "snapshot"]
  /\ UNCHANGED <<shared, config, masking, quiet, store, pipeline, optimizer, ledger, ctx, used0, plan, result, ser, calls,
                 batch, order, results, done, runner, stop_set,
                 sentinels>>
PoolTake(w) ==
  /\ runner \in {"collect", "raising"}
  /\ pc[w] = "idle"
  /\ queue # <<>>
  /\ queue' = Tail(queue)
  /\ LET i == Head(queue)
     IN  IF fut[i].state = "cancelled"
         THEN UNCHANGED <<pc, meta, scores, hand, fut, begun>>
         ELSE /\ fut' = [fut EXCEPT ![i].state = "running"]
              /\ hand' = [hand EXCEPT ![w] = i]
              /\ meta' = [meta EXCEPT ![w] = batch[i].item.meta]
              /\ scores' = [scores EXCEPT ![w] = batch[i].item.scores]
              /\ begun' = Append(begun, i)
              /\ pc' = [pc EXCEPT ![w] = "snapshot"]
  /\ UNCHANGED <<shared, config, masking, quiet, store, pipeline, optimizer, ledger, ctx, used0, plan, result, ser, calls,
                 batch, order, results, done, runner, stop_set,
                 sentinels>>

\* worker returned: the future holds the record.
PoolStore(w) ==
  /\ pc[w] = "returned"
  /\ fut' = [fut EXCEPT ![hand[w]] = Future("record", ReturnedRecord(w))]
  /\ DropRecord(w)
  /\ hand' = [hand EXCEPT ![w] = 0]
  /\ pc' = [pc EXCEPT ![w] = "idle"]
  /\ UNCHANGED <<shared, config, masking, quiet, store, pipeline, optimizer, ledger, ctx, used0, ser, calls, batch, order,
                 queue, results, begun, done, runner, stop_set,
                 sentinels>>

\* worker raised: the future holds the exception.
PoolFail(w) ==
  /\ pc[w] = "failed"
  /\ fut' = [fut EXCEPT ![hand[w]].state = "raised"]
  /\ hand' = [hand EXCEPT ![w] = 0]
  /\ pc' = [pc EXCEPT ![w] = "idle"]
  /\ UNCHANGED <<shared, config, masking, quiet, store, pipeline, optimizer, ledger, locals, calls, batch, order, queue,
                 results, begun, done, runner, stop_set,
                 sentinels>>

\* list(ex.map(...)): the results are taken future by future, in input
\* order; a future holding an exception re-raises it and the futures not
\* yet running are cancelled.
ParCollect ==
  /\ runner = "collect"
  /\ Len(results) < Len(batch)
  /\ LET k == Len(results) + 1
     IN  \/ /\ fut[k].state = "record"
            /\ results' = Append(results, fut[k].rec)
            /\ UNCHANGED <<fut, runner>>
         \/ /\ fut[k].state = "raised"
            /\ fut' = [i \in 1..Len(fut) |->
                         IF fut[i].state = "pending"
                         THEN Future("cancelled", NoRecord) ELSE fut[i]]
            /\ runner' = "raising"
            /\ UNCHANGED results
  /\ UNCHANGED <<shared, config, masking, quiet, store, pipeline, optimizer, ledger, pc, locals, calls, batch, order, queue,
                 hand, begun, done, stop_set,
                 sentinels>>

\* Leaving the with block waits for the pool threads; then return results.
ParReturn ==
  /\ runner = "collect"
  /\ Len(results) = Len(batch)
  /\ queue = <<>> /\ \A w \in Workers : pc[w] = "idle"
  /\ runner' = "returned"
  /\ UNCHANGED <<shared, config, masking, quiet, store, pipeline, optimizer, ledger, pc, locals, calls, batch, order, queue,
                 hand, fut, results, begun, done, stop_set,
                 sentinels>>

\* Leaving the with block waits for the pool threads; then the exception
\* leaves process_batch_parallel.
ParRaise ==
  /\ runner = "raising"
  /\ queue = <<>> /\ \A w \in Workers : pc[w] = "idle"
  /\ runner' = "raised"
  /\ UNCHANGED <<shared, config, masking, quiet, store, pipeline, optimizer, ledger, pc, locals, calls, batch, order, queue,
                 hand, fut, results, begun, done, stop_set,
                 sentinels>>

ParNext ==
  \/ ParSubmit
  \/ \E w \in Workers : PoolTake(w)
  \/ \E w \in Workers : PoolStore(w)
  \/ \E w \in Workers : PoolFail(w)
  \/ ParCollect
  \/ ParReturn
  \/ ParRaise
  \/ \E w \in Workers : Snapshot(w)
  \/ \E w \in Workers : Decide(w)
  \/ \E w \in Workers : Raise(w)
  \/ \E w \in Workers : Apply(w)
  \/ \E w \in Workers : Usage(w)
  \/ \E w \in Workers : Account(w)
  \/ \E w \in Workers : LogRead(w)
  \/ \E w \in Workers : LogHash(w)
  \/ \E w \in Workers : LogAppend(w)

ParSpec == ParInit /\ [][ParNext]_vars

(* ------------------------------ WorkQueue ----------------------------- *)

\* WorkQueue(system, workers=NWorkers) on a fresh system configured with
\* the class policies of PolicyTable, not yet started.
QueueInit ==
  /\ Fresh
  /\ Detached
  /\ class_policies = PolicyTable
  /\ batch = <<>>
  /\ order = <<>>
  /\ queue = <<>>
  /\ hand = [w \in Workers |-> 0]
  /\ fut = <<>>
  /\ results = <<>>
  /\ begun = <<>>
  /\ done = {}
  /\ runner = "new"
  /\ stop_set = FALSE
  /\ sentinels = 0

\* start(): one thread per worker, each entering _worker.
QStart ==
  /\ runner = "new"
  /\ pc' = [w \in Workers |-> "loop"]
  /\ runner' = "started"
  /\ UNCHANGED <<shared, config, masking, quiet, store, pipeline, optimizer, ledger, locals, calls, batch, order, queue,
                 hand, fut, results, begun, done, stop_set, sentinels>>

\* submit(item, meta, callback): q.put((item, meta, callback)).
QSubmit ==
  /\ Len(batch) < MaxTasks
  /\ \E t \in QueueTasks : batch' = Append(batch, t)
  /\ queue' = Append(queue, Len(batch) + 1)
  /\ fut' = Append(fut, Future("queued", NoRecord))
  /\ UNCHANGED <<shared, config, masking, quiet, store, pipeline, optimizer, ledger, pc, locals, calls, order, hand,
                 results, begun, done, runner, stop_set, sentinels>>

\* stop(): self._stop.set()
QStopSet ==
  /\ runner = "started"
  /\ stop_set' = TRUE
  /\ runner' = "stopping"
  /\ UNCHANGED <<shared, config, masking, quiet, store, pipeline, optimizer, ledger, pc, locals, calls, batch, order, queue,
                 hand, fut, results, begun, done, sentinels>>

\* stop(): for _ in self._threads: self.q.put(None)
QStopPutOnlyOne ==
  /\ runner = "stopping"
  /\ sentinels < NWorkers
  /\ queue' = IF sentinels = 0 THEN Append(queue, 0) ELSE queue
  /\ sentinels' = sentinels + 1
  /\ UNCHANGED <<shared, config, masking, quiet, store, pipeline, optimizer, ledger, pc, locals, calls, batch, order, hand,
                 fut, results, begun, done, runner, stop_set>>
QStopPut ==
  /\ runner = "stopping"
  /\ sentinels < NWorkers
  /\ queue' = Append(queue, 0)
  /\ sentinels' = sentinels + 1
  /\ UNCHANGED <<shared, config, masking, quiet, store, pipeline, optimizer, ledger, pc, locals, calls, batch, order, hand,
                 fut, results, begun, done, runner, stop_set>>

\* stop(): t.join(timeout=1) for every thread, whether it has ended or not.
QStopJoin ==
  /\ runner = "stopping"
  /\ sentinels = NWorkers
  /\ runner' = "stopped"
  /\ UNCHANGED <<shared, config, masking, quiet, store, pipeline, optimizer, ledger, pc, locals, calls, batch, order, queue,
                 hand, fut, results, begun, done, stop_set, sentinels>>

\* _worker: while not self._stop.is_set()
QLoop(w) ==
  /\ pc[w] = "loop"
  /\ pc' = [pc EXCEPT ![w] = IF stop_set THEN "exited" ELSE "get"]
  /\ UNCHANGED <<shared, config, masking, quiet, store, pipeline, optimizer, ledger, locals, calls, harness>>

\* _worker: task = self.q.get() (blocks while the queue is empty); None
\* breaks the loop, a task is unpacked and process_item is called on it.
QGetKeepQueued(w) ==
  /\ pc[w] = "get"
  /\ queue # <<>>
  /\ LET i == Head(queue)
     IN  IF i = 0
         THEN /\ queue' = Tail(queue)
              /\ pc' = [pc EXCEPT ![w] = "exited"]
              /\ UNCHANGED <<meta, scores, hand, begun>>
         ELSE /\ queue' = queue
              /\ hand' = [hand EXCEPT ![w] = i]
              /\ meta' = [meta EXCEPT ![w] = batch[i].item.meta]
              /\ scores' = [scores EXCEPT ![w] = batch[i].item.scores]
              /\ begun' = Append(begun, i)
              /\ pc' = [pc EXCEPT ![w] = "snapshot"]
  /\ UNCHANGED <<shared, config, masking, quiet, store, pipeline, optimizer, ledger, ctx, used0, plan, result, ser, calls,
                 batch, order, fut, results, done, runner, stop_set, sentinels>>
QGet(w) ==
  /\ pc[w] = "get"
  /\ queue # <<>>
  /\ queue' = Tail(queue)
  /\ LET i == Head(queue)
     IN  IF i = 0
         THEN /\ pc' = [pc EXCEPT ![w] = "exited"]
              /\ UNCHANGED <<meta, scores, hand, begun>>
         ELSE /\ hand' = [hand EXCEPT ![w] = i]
              /\ meta' = [meta EXCEPT ![w] = batch[i].item.meta]
              /\ scores' = [scores EXCEPT ![w] = batch[i].item.scores]
              /\ begun' = Append(begun, i)
              /\ pc' = [pc EXCEPT ![w] = "snapshot"]
  /\ UNCHANGED <<shared, config, masking, quiet, store, pipeline, optimizer, ledger, ctx, used0, plan, result, ser, calls,
                 batch, order, fut, results, done, runner, stop_set, sentinels>>

\* _worker: cb(res); the callback may raise.
QCallback(w) ==
  /\ pc[w] = "returned"
  /\ fut' = [fut EXCEPT ![hand[w]] = Future("called", ReturnedRecord(w))]
  /\ DropRecord(w)
  /\ pc' = [pc EXCEPT ![w] =
              IF batch[hand[w]].cb_raises THEN "failed" ELSE "task_done"]
  /\ UNCHANGED <<shared, config, masking, quiet, store, pipeline, optimizer, ledger, ctx, used0, ser, calls, batch, order,
                 queue, hand, results, begun, done, runner, stop_set, sentinels>>

\* _worker: except Exception: self.system.ledger.log_error("worker_failure",
\* {"error": ..., "meta": meta}); the context is modelled by the task's index.
QExceptThreadDies(w) ==
  /\ pc[w] = "failed"
  /\ pc' = [pc EXCEPT ![w] = "exited"]
  /\ UNCHANGED <<shared, config, masking, quiet, store, pipeline, optimizer, ledger, locals, calls, harness>>
QExcept(w) ==
  /\ pc[w] = "failed"
  /\ ser' = [ser EXCEPT ![w] =
               [event |-> [type |-> "error", message |-> "worker_failure",
                           task |-> hand[w]],
                prev_hash |-> EmptyHash, hash |-> EmptyHash]]
  /\ pc' = [pc EXCEPT ![w] = "log_read"]
  /\ UNCHANGED <<shared, config, masking, quiet, store, pipeline, optimizer, ledger, meta, scores, ctx, used0, plan, result,
                 calls, harness>>

\* _worker: finally: self.q.task_done(); back to the loop test.
QTaskDone(w) ==
  /\ pc[w] = "task_done"
  /\ done' = done \cup {<<hand[w], w>>}
  /\ hand' = [hand EXCEPT ![w] = 0]
  /\ pc' = [pc EXCEPT ![w] = "loop"]
  /\ UNCHANGED <<shared, config, masking, quiet, store, pipeline, optimizer, ledger, locals, calls, batch, order, queue,
                 fut, results, begun, runner, stop_set, sentinels>>

\* The steps of one worker thread.
WorkerStep(w) ==
  \/ QLoop(w) \/ QGet(w) \/ QCallback(w) \/ QExcept(w) \/ QTaskDone(w)
  \/ Snapshot(w) \/ Decide(w) \/ Raise(w) \/ Apply(w) \/ Usage(w) \/ Account(w)
  \/ LogRead(w) \/ LogHash(w) \/ LogAppend(w)

QueueNext ==
  \/ QStart
  \/ QSubmit
  \/ QStopSet
  \/ QStopPut
  \/ QStopJoin
  \/ \E w \in Workers : QLoop(w)
  \/ \E w \in Workers : QGet(w)
  \/ \E w \in Workers : QCallback(w)
  \/ \E w \in Workers : QExcept(w)
  \/ \E w \in Workers : QTaskDone(w)
  \/ \E w \in Workers : Snapshot(w)
  \/ \E w \in Workers : Decide(w)
  \/ \E w \in Workers : Raise(w)
  \/ \E w \in Workers : Apply(w)
  \/ \E w \in Workers : Usage(w)
  \/ \E w \in Workers : Account(w)
  \/ \E w \in Workers : LogRead(w)
  \/ \E w \in Workers : LogHash(w)
  \/ \E w \in Workers : LogAppend(w)

QueueSpec == QueueInit /\ [][QueueNext]_vars

\* The same with scheduling: a started worker thread that can take a step
\* eventually takes one, and a stop() call in progress goes on.
QueueFairSpec ==
  /\ QueueInit
  /\ [][QueueNext]_vars
  /\ \A w \in Workers : WF_vars(WorkerStep(w))
  /\ WF_vars(QStopPut \/ QStopJoin)

(* --------------------------- storage adapter -------------------------- *)

\* The contents, tier names and ttl values move_to_tier is called with: an
\* unknown tier name, no ttl (None), a ttl of 0 and a ttl of one second.
Contents == {1}
TierArgs == {"hot", "cold", "glacier"}
TtlArgs == {Absent, 0, 1}

\* StorageAdapter.move_to_tier: if tier not in self.tiers: tier = "cold".
MemTier(tier) == IF tier \in Tiers THEN tier ELSE "cold"

\* "if ttl:" is the truth value of the argument: None and 0 are both false.
Registers(ttl) == ttl # Absent /\ ttl # 0

\* self.tiers[tier][item_id] = content
Stored(ts, id, c, tier) == [ts EXCEPT ![tier][id] = c]

\* if ttl: self.ttl_map[item_id] = time.time() + ttl
Registered(tm, id, ttl, now) ==
  IF Registers(ttl) THEN [tm EXCEPT ![id] = now + ttl] ELSE tm

\* The expiry a move asks for: none without a ttl, else now + ttl.
Due(ttl, now) == IF ttl = Absent THEN Absent ELSE now + ttl

\* purge_expired: the ids of ttl_map with now >= expire_at ...
Expired(tm, now) == {id \in DOMAIN tm : tm[id] # Absent /\ now >= tm[id]}

\* ... each popped from every tier (every tier directory) and from ttl_map.
Purged(ts, gone) ==
  [t \in DOMAIN ts |-> [id \in DOMAIN ts[t] |-> IF id \in gone THEN Absent ELSE ts[t][id]]]
Forgotten(tm, gone) ==
  [id \in DOMAIN tm |-> IF id \in gone THEN Absent ELSE tm[id]]

\* (history) the ids whose latest move asked for an expiry that has passed.
SweptNow(now) ==
  [id \in ItemIds |-> swept[id] \/ (given[id].due # Absent /\ now >= given[id].due)]

\* StorageAdapter.move_to_tier(item_id, content, tier, ttl): one critical
\* section.
MoveToTier ==
  /\ adapter = "memory"
  /\ \E id \in ItemIds, c \in Contents, t \in TierArgs, ttl \in TtlArgs :
       /\ tiers' = Stored(tiers, id, c, MemTier(t))
       /\ ttl_map' = Registered(ttl_map, id, ttl, clock)
       /\ given' = [given EXCEPT ![id] = [tier |-> MemTier(t), due |-> Due(ttl, clock)]]
       /\ swept' = [swept EXCEPT ![id] = FALSE]
  /\ UNCHANGED <<shared, config, masking, quiet, ledger, pc, locals, calls, harness, clock,
                 adapter, mv, removed, pipeline, optimizer>>

\* purge_expired() of either adapter: one critical section.
PurgeExpired ==
  /\ LET gone == Expired(ttl_map, clock)
     IN  /\ tiers' = Purged(tiers, gone)
         /\ ttl_map' = Forgotten(ttl_map, gone)
         /\ removed' = Cardinality(gone)
  /\ swept' = SweptNow(clock)
  /\ UNCHANGED <<shared, config, masking, quiet, ledger, pc, locals, calls, harness, clock,
                 adapter, mv, given, pipeline, optimizer>>

\* Time passes.
Tick ==
  /\ clock < MaxTime
  /\ clock' = clock + 1
  /\ UNCHANGED <<shared, config, masking, quiet, ledger, pc, locals, calls, harness, tiers,
                 ttl_map, adapter, mv, given, swept, removed, pipeline, optimizer>>

\* The in-memory adapter under any sequence of moves and purges.
StoreNext ==
  \/ MoveToTier
  \/ PurgeExpired
  \/ Tick

StoreSpec == Init /\ [][StoreNext]_vars

\* LocalFSAdapter.move_to_tier, first critical section: the content is
\* written to <root>/<tier>/<item_id>.bin, whatever the tier name.
FsWrite(w) ==
  /\ adapter = "local_fs"
  /\ pc[w] = "idle"
  /\ \E id \in ItemIds, c \in Contents, t \in TierArgs, ttl \in TtlArgs :
       /\ tiers' = Stored(tiers, id, c, t)
       /\ mv' = [mv EXCEPT ![w] = [id |-> id, ttl |-> ttl]]
  /\ pc' = [pc EXCEPT ![w] = "fs_register"]
  /\ UNCHANGED <<shared, config, masking, quiet, ledger, locals, calls, harness, ttl_map, clock,
                 adapter, given, swept, removed, pipeline, optimizer>>

\* LocalFSAdapter.move_to_tier, second critical section ("if ttl:"), then
\* the stat of the path and the return.
FsRegister(w) ==
  /\ pc[w] = "fs_register"
  /\ ttl_map' = Registered(ttl_map, mv[w].id, mv[w].ttl, clock)
  /\ mv' = [mv EXCEPT ![w] = NoMove]
  /\ pc' = [pc EXCEPT ![w] = "idle"]
  /\ UNCHANGED <<shared, config, masking, quiet, ledger, locals, calls, harness, tiers, clock,
                 adapter, given, swept, removed, pipeline, optimizer>>

\* A LocalFSAdapter shared by NWorkers threads.
FsInit ==
  /\ Fresh
  /\ NoRunner
  /\ EmptyStore
  /\ NoRatio
  /\ adapter = "local_fs"
  /\ PipelineIdle
  /\ OptimizerBuilt

FsNext ==
  \/ \E w \in Workers : FsWrite(w)
  \/ \E w \in Workers : FsRegister(w)
  \/ PurgeExpired
  \/ Tick

FsSpec == FsInit /\ [][FsNext]_vars

(* ------------------------------ pipeline ------------------------------ *)

\* ttl = meta.get("archive_ttl", 30 * 24 * 3600)
DefaultTtl == 2592000

\* The metas given to ForgettingPipeline.run carry "id" and "content": the
\* content of the item with id i is written i, and Masking's
\* redacted_preview of a content c (its head, padded with "*") is written
\* 10 + c.
Content(id) == id
Redacted(c) == 10 + c

\* The (item, meta) pairs of a run: a high-value item (preserve), a
\* low-value item (archive), items of class pii (mask), bulk (compress) and
\* secret (key_destroy), an item under regulatory hold (retain), and an
\* item whose class names an unregistered action.
PipeItems ==
  { [meta |-> NoMeta, scores |-> Flat(90)],
    [meta |-> Meta(TRUE, FALSE, "none", FALSE, FALSE, FALSE, FALSE, "none",
                   Absent, Absent, Absent),
     scores |-> Flat(60)],
    [meta |-> NoMeta, scores |-> Flat(25)],
    [meta |-> Meta(FALSE, FALSE, "pii", FALSE, FALSE, FALSE, FALSE, "none",
                   Absent, Absent, Absent),
     scores |-> Flat(40)],
    [meta |-> Meta(FALSE, FALSE, "bulk", FALSE, FALSE, FALSE, FALSE, "none",
                   Absent, Absent, Absent),
     scores |-> Flat(50)],
    [meta |-> Meta(FALSE, FALSE, "secret", FALSE, FALSE, FALSE, FALSE, "none",
                   Absent, Absent, Absent),
     scores |-> Flat(10)],
    [meta |-> Meta(FALSE, FALSE, "legacy", FALSE, FALSE, FALSE, FALSE, "none",
                   Absent, Absent, Absent),
     scores |-> Flat(25)] }

PipeTask(it, id, ttl) ==
  [item |-> it, cb_raises |-> FALSE, id |-> id, archive_ttl |-> ttl]

\* The lists given to run: the i-th pair has id i; the low-value item comes
\* with and without an archive_ttl of one second.
PipeTasks ==
  { PipeTask(it, id, ttl) : it \in PipeItems, id \in ItemIds, ttl \in {Absent, 1} }

PipeBatches ==
  UNION { { b \in [1..n -> PipeTasks] :
              \A i \in 1..n :
                /\ b[i].id = i
                /\ b[i].archive_ttl # Absent => b[i].item.scores = Flat(25) }
          : n \in 0..MaxIds }

\* for res, (_, meta) in zip(results, items): the k-th result and the k-th
\* input pair.
ZipLen == Min(Len(results), Len(batch))
PipeAction(k) == results[k].plan.action
PipeId(k) == batch[k].id
PipeContent(k) == Content(batch[k].id)
PipeTtl(k) ==
  IF batch[k].archive_ttl = Absent THEN DefaultTtl ELSE batch[k].archive_ttl

\* res["result"].get("redacted_preview", ""): the preview in the k-th
\* result, made by Masking from the content of the item it processed.
PipePreview(k) == Redacted(Content(batch[order[k]].id))

\* The move_to_tier call of the k-th pair.
MoveCall(id, c, tier, ttl) == [id |-> id, content |-> c, tier |-> tier, ttl |-> ttl]

PipeMove(k) ==
  IF PipeAction(k) = "archive"
  THEN MoveCall(PipeId(k), PipeContent(k), "cold", PipeTtl(k))
  ELSE IF PipeAction(k) = "preserve"
  THEN MoveCall(PipeId(k), PipeContent(k), "hot", Absent)
  ELSE IF PipeAction(k) = "mask"
  THEN MoveCall(PipeId(k), PipePreview(k), "warm", Absent)
  ELSE MoveCall(PipeId(k), PipeContent(k), "warm", Absent)

MoveActions == {"archive", "preserve", "mask", "compress"}
DeleteActions == {"delete", "key_destroy"}

\* (history) one storage call of the run.
Step(call, k, ok) ==
  [call |-> call, action |-> PipeAction(k), id |-> PipeMove(k).id,
   content |-> PipeMove(k).content, tier |-> PipeMove(k).tier,
   ttl |-> PipeMove(k).ttl, ok |-> ok]

\* ForgettingPipeline(), or ForgettingPipeline(use_local_fs=True), on a
\* system configured with the class policies of PolicyTable; run(items) is
\* called and enters process_batch.
PipeInit ==
  /\ Fresh
  /\ class_policies = PolicyTable
  /\ batch \in PipeBatches
  /\ order = <<>>
  /\ queue = <<>>
  /\ hand = [w \in Workers |-> 0]
  /\ fut = <<>>
  /\ results = <<>>
  /\ begun = <<>>
  /\ done = {}
  /\ runner = "start"
  /\ stop_set = FALSE
  /\ sentinels = 0
  /\ EmptyStore
  /\ NoRatio
  /\ adapter \in {"memory", "local_fs"}
  /\ pipe = "batch"
  /\ cursor = 0
  /\ attempts = 0
  /\ steps = <<>>
  /\ OptimizerBuilt

\* process_batch returned: the zip loop begins.
PipeLoop ==
  /\ pipe = "batch"
  /\ runner = "returned"
  /\ pipe' = "loop"
  /\ cursor' = 1
  /\ UNCHANGED <<shared, config, masking, quiet, ledger, pc, locals, calls, harness, store,
                 attempts, steps, optimizer>>

\* process_batch raised: run has no handler, the exception leaves run.
PipeBatchRaised ==
  /\ pipe = "batch"
  /\ runner = "raised"
  /\ pipe' = "raised_batch"
  /\ UNCHANGED <<shared, config, masking, quiet, ledger, pc, locals, calls, harness, store,
                 cursor, attempts, steps, optimizer>>

\* _move_with_retry, the try: self.storage.move_to_tier(...).  The
\* in-memory adapter stores and returns; the filesystem adapter writes the
\* file and returns, or its write raises (OSError).  On return the loop goes
\* to the next pair.
PipeStore ==
  /\ pipe = "loop"
  /\ cursor <= ZipLen
  /\ PipeAction(cursor) \in MoveActions
  /\ LET m == PipeMove(cursor)
         tier == IF adapter = "memory" THEN MemTier(m.tier) ELSE m.tier
     IN  \E ok \in (IF adapter = "local_fs" THEN BOOLEAN ELSE {TRUE}) :
           /\ steps' = Append(steps, Step("move_to_tier", cursor, ok))
           /\ IF ok
              THEN /\ tiers' = Stored(tiers, m.id, m.content, tier)
                   /\ ttl_map' = Registered(ttl_map, m.id, m.ttl, clock)
                   /\ cursor' = cursor + 1
                   /\ attempts' = 0
                   /\ pipe' = pipe
              ELSE /\ attempts' = attempts + 1
                   /\ pipe' = "sleep"
                   /\ UNCHANGED <<tiers, ttl_map, cursor>>
  /\ UNCHANGED <<shared, config, masking, quiet, ledger, pc, locals, calls, harness, clock,
                 adapter, mv, given, swept, removed, optimizer>>

\* _move_with_retry, the except clause: last_exc = exc;
\* time.sleep(0.05 * (2 ** attempt)).  pipeline.py does not import time: the
\* name lookup raises NameError, which leaves _move_with_retry and run.
PipeSleep ==
  /\ pipe = "sleep"
  /\ pipe' = "raised_sleep"
  /\ UNCHANGED <<shared, config, masking, quiet, ledger, pc, locals, calls, harness, store,
                 cursor, attempts, steps, optimizer>>

\* self.storage.delete_item(item_id): StorageAdapter has no such attribute
\* (AttributeError) and LocalFSAdapter inherits StorageBackend.delete_item,
\* which raises NotImplementedError; the exception leaves run.
PipeDelete ==
  /\ pipe = "loop"
  /\ cursor <= ZipLen
  /\ PipeAction(cursor) \in DeleteActions
  /\ PipeId(cursor) # Absent
  /\ steps' = Append(steps, Step("delete_item", cursor, FALSE))
  /\ pipe' = "raised_delete"
  /\ UNCHANGED <<shared, config, masking, quiet, ledger, pc, locals, calls, harness, store,
                 cursor, attempts, optimizer>>

\* Any other action (retain, semantic_preserve): no storage call.
PipeSkip ==
  /\ pipe = "loop"
  /\ cursor <= ZipLen
  /\ PipeAction(cursor) \notin MoveActions \cup DeleteActions
  /\ cursor' = cursor + 1
  /\ UNCHANGED <<shared, config, masking, quiet, ledger, pc, locals, calls, harness, store,
                 pipe, attempts, steps, optimizer>>

\* purge_info = self.storage.purge_expired(); return.
PipePurge ==
  /\ pipe = "loop"
  /\ cursor > ZipLen
  /\ LET gone == Expired(ttl_map, clock)
     IN  /\ tiers' = Purged(tiers, gone)
         /\ ttl_map' = Forgotten(ttl_map, gone)
         /\ removed' = Cardinality(gone)
  /\ pipe' = "returned"
  /\ UNCHANGED <<shared, config, masking, quiet, ledger, pc, locals, calls, harness, clock,
                 adapter, mv, given, swept, cursor, attempts, steps, optimizer>>

PipeNext ==
  \/ BatchSort
  \/ BatchCall
  \/ BatchAppend
  \/ BatchRaise
  \/ BatchReturn
  \/ \E w \in Workers : Snapshot(w)
  \/ \E w \in Workers : Decide(w)
  \/ \E w \in Workers : Raise(w)
  \/ \E w \in Workers : Apply(w)
  \/ \E w \in Workers : Usage(w)
  \/ \E w \in Workers : Account(w)
  \/ \E w \in Workers : LogRead(w)
  \/ \E w \in Workers : LogHash(w)
  \/ \E w \in Workers : LogAppend(w)
  \/ PipeLoop
  \/ PipeBatchRaised
  \/ PipeStore
  \/ PipeSleep
  \/ PipeDelete
  \/ PipeSkip
  \/ PipePurge
  \/ Tick

PipeSpec == PipeInit /\ [][PipeNext]_vars

(* ------------------------- optimizer on its own ----------------------- *)

\* The feedback events: the three types of UpdateArgs and an event without
\* a "type".
EventArgs == UpdateArgs \cup {"none"}

\* if not event_type or not self.decision_engine: return
UpdateReturnsEarly(att, event_type) == event_type = "none" \/ ~att

\* LearningOptimizer.update(feedback_event).
OptUpdate ==
  /\ Len(updates) < MaxUpdates
  /\ \E ev \in EventArgs :
       /\ thresholds' = IF UpdateReturnsEarly(attached, ev) THEN thresholds
                        ELSE OptimizerUpdate(thresholds, ev)
       /\ last_event' = IF UpdateReturnsEarly(attached, ev) THEN last_event ELSE ev
       /\ updates' = Append(updates, ev)
  /\ UNCHANGED <<stage, utilization, config, masking, quiet, ledger, pc, locals, calls, harness,
                 store, pipeline, attached>>

\* An engine with the default thresholds and a LearningOptimizer built with
\* or without it.
OptInit ==
  /\ Fresh
  /\ NoRunner
  /\ EmptyStore
  /\ NoRatio
  /\ adapter = "memory"
  /\ PipelineIdle
  /\ attached \in BOOLEAN
  /\ last_event = "none"
  /\ updates = <<>>

OptNext == OptUpdate

OptSpec == OptInit /\ [][OptNext]_vars

(* ------------------- parallel batch past the gate --------------------- *)

\* The pairs given to process_batch_parallel when one of them is destroyed
\* by class policy: a low-value item, an item of class "secret" approved
\* for irreversible processing, and the item whose policy names an
\* unregistered action.
GateItems ==
  { [meta |-> NoMeta, scores |-> Flat(25)],
    [meta |-> Meta(FALSE, FALSE, "secret", FALSE, FALSE, TRUE, TRUE, "none",
                   Absent, Absent, Absent),
     scores |-> Flat(25)],
    [meta |-> Meta(FALSE, FALSE, "legacy", FALSE, FALSE, FALSE, FALSE, "none",
                   Absent, Absent, Absent),
     scores |-> Flat(25)] }

GateBatches ==
  UNION { [1..n -> {Task(it, FALSE) : it \in GateItems}] : n \in 0..MaxBatch }

\* process_batch_parallel(system, items) is called on a new system.
GateInit ==
  /\ Fresh
  /\ Detached
  /\ batch \in GateBatches
  /\ order = <<>>
  /\ queue = <<>>
  /\ hand = [w \in Workers |-> 0]
  /\ fut = <<>>
  /\ results = <<>>
  /\ begun = <<>>
  /\ done = {}
  /\ runner = "start"
  /\ stop_set = FALSE
  /\ sentinels = 0

GateSpec == GateInit /\ [][ParNext]_vars

(* ------------------- a sequential session under pressure -------------- *)

\* The pairs given to process_batch in a session whose storage use has been
\* recorded: a worthless item, a low-value item approved for irreversible
\* processing, the item whose class has a policy in PolicyTable, and a
\* mid-value item whose short content grows under gzip.
SessionItems ==
  { [meta |-> NoMeta, scores |-> Scores(10, 10, 10, 10, 10, 0, 100)],
    [meta |-> Meta(FALSE, FALSE, "none", FALSE, FALSE, FALSE, FALSE, "none",
                   Absent, 4 * Micro, 24 * Micro),
     scores |-> Flat(55)],
    [meta |-> Meta(FALSE, FALSE, "none", FALSE, FALSE, TRUE, TRUE, "none",
                   Absent, Absent, Absent),
     scores |-> Flat(10)],
    [meta |-> Meta(FALSE, FALSE, "legacy", FALSE, FALSE, FALSE, FALSE, "none",
                   Absent, Absent, Absent),
     scores |-> Flat(25)] }

SessionBatches ==
  UNION { [1..n -> {Task(it, FALSE) : it \in SessionItems}] : n \in 0..MaxBatch }

\* A new system, and a batch about to be given to process_batch.
SessionInit ==
  /\ Fresh
  /\ Detached
  /\ batch \in SessionBatches
  /\ order = <<>>
  /\ queue = <<>>
  /\ hand = [w \in Workers |-> 0]
  /\ fut = <<>>
  /\ results = <<>>
  /\ begun = <<>>
  /\ done = {}
  /\ runner = "start"
  /\ stop_set = FALSE
  /\ sentinels = 0

\* The embedding program records storage use before it calls process_batch:
\* half the budget or twice the budget taken, or the budget given back.
SessionUsageArgs == {Micro \div 2, 2 * Micro, 0 - Micro}
SessionRecordUsage ==
  /\ runner = "start"
  /\ calls < MaxCalls
  /\ \E d \in SessionUsageArgs :
       /\ utilization' = RecordUsage(utilization, d, 0)
       /\ quiet' = StillQuiet(quiet, utilization', d)
  /\ calls' = calls + 1
  /\ UNCHANGED <<stage, thresholds, config, masking, store, pipeline, optimizer,
                 ledger, pc, locals, harness>>

SessionNext == SessionRecordUsage \/ BatchNext

SessionSpec == SessionInit /\ [][SessionNext]_vars

(* --------------------------- masking ratios --------------------------- *)

\* ForgettingLedgerAgent.__init__: masking_dimensions, in hundredths.
MaskingDimensions == [x |-> 50, y |-> 25, z |-> 33, t |-> 66]

\* 1.0 in the unit of a returned ratio: four factors of two decimals each
\* multiply exactly in 1e-8.
Unit == 100000000

\* The dimension names a caller can pass: the four known ones and one the
\* table does not hold.
DimArgs == {"x", "y", "z", "t", "w"}

\* Every dimensions list of up to MaxDims names, repeats included.
DimLists == UNION {[1..n -> DimArgs] : n \in 0..MaxDims}

\* The for loop of calculate_4d_masking_ratio over the first n dimensions:
\* combined_ratio *= (1 - masking_dimensions[dim]) for each known dim.
\* Up to four known names the division is exact.
RECURSIVE CombinedRatio(_, _)
CombinedRatio(dims, n) ==
  IF n = 0 THEN Unit
  ELSE IF dims[n] \in DOMAIN MaskingDimensions
       THEN (CombinedRatio(dims, n - 1) \div 100) * (100 - MaskingDimensions[dims[n]])
       ELSE CombinedRatio(dims, n - 1)

\* calculate_4d_masking_ratio(dimensions): 0.0 for an empty list, else
\* 1 - combined_ratio.
calculate_4d_masking_ratio(dims) ==
  IF dims = <<>> THEN 0 ELSE Unit - CombinedRatio(dims, Len(dims))

\* MASKING_PROFILES: the keys, and the dimensions each key names.
MaskingProfiles ==
  {"X", "Y", "Z", "T", "X+Y", "X+Z", "X+T", "Y+Z", "Y+T", "Z+T",
   "X+Y+Z", "X+Y+T", "X+Z+T", "Y+Z+T", "X+Y+Z+T"}
ProfileDims(profile) ==
  CASE profile = "X" -> {"x"}
    [] profile = "Y" -> {"y"}
    [] profile = "Z" -> {"z"}
    [] profile = "T" -> {"t"}
    [] profile = "X+Y" -> {"x", "y"}
    [] profile = "X+Z" -> {"x", "z"}
    [] profile = "X+T" -> {"x", "t"}
    [] profile = "Y+Z" -> {"y", "z"}
    [] profile = "Y+T" -> {"y", "t"}
    [] profile = "Z+T" -> {"z", "t"}
    [] profile = "X+Y+Z" -> {"x", "y", "z"}
    [] profile = "X+Y+T" -> {"x", "y", "t"}
    [] profile = "X+Z+T" -> {"x", "z", "t"}
    [] profile = "Y+Z+T" -> {"y", "z", "t"}
    [] profile = "X+Y+Z+T" -> {"x", "y", "z", "t"}

\* The agent computes the ratio of the dimensions it was given.
CalculateRatio ==
  /\ ratio = Absent
  /\ ratio' = calculate_4d_masking_ratio(dimensions)
  /\ UNCHANGED <<shared, config, quiet, store, pipeline, optimizer, ledger, pc,
                 locals, calls, harness, dimensions>>

\* An agent about to be asked for the ratio of any dimensions list.
MaskInit ==
  /\ Fresh
  /\ NoRunner
  /\ EmptyStore
  /\ adapter = "memory"
  /\ PipelineIdle
  /\ OptimizerBuilt
  /\ dimensions \in DimLists
  /\ ratio = Absent

MaskNext == CalculateRatio

MaskSpec == MaskInit /\ [][MaskNext]_vars

(* ------------------------------ properties ---------------------------- *)

\* A caller that has its plan (select has returned, the call is not over).
Decided(w) ==
  pc[w] \in {"raised", "apply", "usage", "account", "log_read", "log_hash",
             "log_append"} /\ plan[w] # NoPlan

\* A caller whose handler has returned.
Applied(w) ==
  pc[w] \in {"usage", "account", "log_read", "log_hash", "log_append"}
  /\ result[w] # NoResult

\* C1: under every interleaving of advance calls and process_item calls by
\* concurrent callers, no step lowers the reversibility stage.
StageNeverDecreases == [][stage' >= stage]_vars

\* C1 witness: the masking handler (floor 4) has run for an item whose
\* snapshot already showed stage 7 or more, and the stage is still there.
StageKeptAboveFloor ==
  \E w \in Workers :
    /\ Applied(w)
    /\ plan[w].action = "mask"
    /\ ctx[w] >= GateStage
    /\ stage >= GateStage

\* C2: with calls issued one at a time, the first entry's prev_hash is the
\* empty string and every later entry's prev_hash is the hash of the entry
\* before it.
SequentialChainIntact ==
  /\ Len(events) > 0 => events[1].prev_hash = EmptyHash
  /\ \A i \in 2..Len(events) : events[i].prev_hash = events[i - 1].hash

\* C2 witness: a process_item record followed by an error or constraint
\* entry chained to it.
ChainOfTwoKinds ==
  /\ Len(events) = 2
  /\ events[1].event.type = "record"
  /\ events[2].event.type \in {"error", "constraint"}
  /\ events[2].prev_hash = events[1].hash
  /\ events[2].prev_hash # EmptyHash

\* C3: with concurrent callers of Ledger.log, every stored entry's prev_hash
\* is the hash of the entry stored immediately before it, and no two entries
\* carry the same prev_hash.
ConcurrentChainIntact ==
  /\ \A i \in 2..Len(events) : events[i].prev_hash = events[i - 1].hash
  /\ \A i, j \in 1..Len(events) :
       i # j => events[i].prev_hash # events[j].prev_hash

\* C4: every appended entry still reads as it did when it was hashed: the
\* hash recomputed from the entry's fields equals its stored hash.
EntriesNeverChange ==
  \A i \in 1..Len(events) : Hash(Payload(events[i])) = events[i].hash

\* The rules of the decision order, as conditions on a caller's inputs: its
\* metadata and scores, the configuration, the stage of its snapshot and
\* the storage utilization.
JustDecided(w) == pc[w] \in {"raised", "apply"}

HoldRule(w) == meta[w].regulatory_hold
ProtectedRule(w) == meta[w].protected_class
ClassRule(w) == meta[w].class # "none" /\ meta[w].class \in DOMAIN class_policies
PiiRule(w) ==
  /\ pii_protect
  /\ meta[w].pii
  /\ ~(meta[w].allow_processing /\ meta[w].approval_token)
RiskRule(w) == scores[w].risk >= RiskKeepThreshold /\ ~meta[w].allow_processing
GateRule(w) == ctx[w] >= GateStage

BeforeGate(w) ==
  ~HoldRule(w) /\ ~ProtectedRule(w) /\ ~ClassRule(w) /\ ~PiiRule(w) /\ ~RiskRule(w)

LowScore(w) == Aggregate(scores[w]) < thresholds.archive
UnderBudget == utilization.storage < StorageBudget

\* C5 as claimed: once the stage is 7 or more, every item with
\* allow_irreversible gets retain without an approval token, and with one
\* gets key_destroy and the stage becomes 9.
GateDecidesEveryIrreversibleItem ==
  \A w \in Workers :
    (Decided(w) /\ ctx[w] >= GateStage /\ meta[w].allow_irreversible) =>
      IF meta[w].approval_token
      THEN plan[w].action = "key_destroy" /\ (Applied(w) => stage = DestroyStage)
      ELSE plan[w].action = "retain"

\* C5 amended: once the stage is 7 or more, every item with
\* allow_irreversible that no earlier rule catches (regulatory hold,
\* protected class, class policy, PII rule, high-risk rule) gets retain
\* without an approval token, and with one gets key_destroy and the stage
\* becomes 9.
GateDecidesUncaughtIrreversibleItem ==
  \A w \in Workers :
    (Decided(w) /\ ctx[w] >= GateStage /\ meta[w].allow_irreversible
       /\ BeforeGate(w)) =>
      IF meta[w].approval_token
      THEN plan[w].action = "key_destroy" /\ (Applied(w) => stage = DestroyStage)
      ELSE plan[w].action = "retain"

\* C5 witness: an approved item met the gate at stage 7, its key was
\* destroyed and the stage is 9.
ApprovedItemDestroyedAtGate ==
  \E w \in Workers :
    /\ Applied(w)
    /\ ctx[w] = GateStage
    /\ meta[w].allow_irreversible /\ meta[w].approval_token
    /\ BeforeGate(w)
    /\ plan[w].action = "key_destroy"
    /\ result[w].status = "key_destroyed"
    /\ stage = DestroyStage

\* C6: an item without an approval token is never irreversibly destroyed:
\* its handler never reports key_destroyed and never brings the stage to 9.
NoTokenNeverDestroyed ==
  \A w \in Workers :
    (Applied(w) /\ ~meta[w].approval_token) =>
      /\ result[w].status # "key_destroyed"
      /\ ctx[w] < DestroyStage => stage < DestroyStage

\* C7: an item under regulatory hold is assigned retain, whatever its other
\* flags, its scores, the budget state and the stage.
RegulatoryHoldRetains ==
  \A w \in Workers :
    (Decided(w) /\ meta[w].regulatory_hold) => plan[w].action = "retain"

\* C7 witness: retain for a held item that is also protected, PII, of a
\* class with a key_destroy policy, approved for irreversible processing,
\* high-risk, past the gate and under budget pressure.
HoldBeatsEverything ==
  \E w \in Workers :
    /\ JustDecided(w)
    /\ meta[w].regulatory_hold /\ meta[w].protected_class /\ meta[w].pii
    /\ meta[w].allow_irreversible /\ meta[w].approval_token
    /\ ClassRule(w) /\ class_policies[meta[w].class].action = "key_destroy"
    /\ scores[w].risk >= RiskKeepThreshold
    /\ ctx[w] >= GateStage
    /\ ~UnderBudget
    /\ plan[w].action = "retain"

\* The score rule's outcome, band by band.
ScoreBandAction(w) ==
  LET agg == Aggregate(scores[w]) IN
  CASE agg >= thresholds.preserve -> "preserve"
    [] agg < thresholds.preserve /\ agg >= thresholds.compress -> "compress"
    [] agg < thresholds.compress /\ agg >= thresholds.mask ->
         IF scores[w].semantic >= SemanticCut /\ scores[w].importance >= ImportanceCut
         THEN "semantic_preserve" ELSE "mask"
    [] agg < thresholds.mask /\ agg >= thresholds.archive -> "archive"
    [] agg < thresholds.archive -> IF UnderBudget THEN "archive" ELSE "delete"

\* The ordered rule table: condition and outcome of each rule.
RuleTable(w) ==
  << [when |-> HoldRule(w), action |-> "retain"],
     [when |-> ProtectedRule(w), action |-> "preserve"],
     [when |-> ClassRule(w),
      action |-> IF ClassRule(w)
                 THEN IF class_policies[meta[w].class].action = "none"
                      THEN "retain" ELSE class_policies[meta[w].class].action
                 ELSE "none"],
     [when |-> PiiRule(w),
      action |-> IF meta[w].allow_processing THEN "retain" ELSE "mask"],
     [when |-> RiskRule(w), action |-> "preserve"],
     [when |-> GateRule(w),
      action |-> IF meta[w].allow_irreversible /\ meta[w].approval_token
                 THEN "key_destroy" ELSE "retain"],
     [when |-> TRUE, action |-> ScoreBandAction(w)] >>

FirstMatch(table) ==
  table[CHOOSE k \in 1..Len(table) :
          table[k].when /\ \A j \in 1..(k - 1) : ~table[j].when]

\* C8: select returns the outcome of the first rule that matches, in the
\* order regulatory hold, protected class, class policy, PII protection,
\* high risk, irreversibility gate, score thresholds.
FirstMatchingRuleWins ==
  \A w \in Workers :
    JustDecided(w) => plan[w].action = FirstMatch(RuleTable(w)).action

\* C8 witness: an item that both the PII rule and the gate match (the gate
\* would destroy it) got the PII rule's mask.
PiiRuleShadowsGate ==
  \E w \in Workers :
    /\ JustDecided(w)
    /\ ~HoldRule(w) /\ ~ProtectedRule(w) /\ ~ClassRule(w)
    /\ PiiRule(w) /\ GateRule(w)
    /\ meta[w].allow_irreversible /\ meta[w].approval_token
    /\ plan[w].action = "mask"

\* C9: with PII protection on and no regulatory hold, protected class or
\* class policy applying, a PII item gets mask with the requested (default
\* X+Y) profile when allow_processing is absent, retain when
\* allow_processing is set without a token, and one of compress, archive,
\* semantic_preserve, delete, key_destroy only with both.
PiiItemProtected ==
  \A w \in Workers :
    (JustDecided(w) /\ pii_protect /\ meta[w].pii
       /\ ~HoldRule(w) /\ ~ProtectedRule(w) /\ ~ClassRule(w)) =>
      /\ ~meta[w].allow_processing =>
           /\ plan[w].action = "mask"
           /\ plan[w].profile =
                IF meta[w].mask_profile = "none" THEN "X+Y" ELSE meta[w].mask_profile
      /\ (meta[w].allow_processing /\ ~meta[w].approval_token) =>
           plan[w].action = "retain"
      /\ plan[w].action \in {"compress", "archive", "semantic_preserve", "delete",
                             "key_destroy"} =>
           (meta[w].allow_processing /\ meta[w].approval_token)

\* C9 witness: a low-score PII item under budget pressure (delete by score)
\* got mask with the profile its metadata asks for.
PiiItemMaskedNotDeleted ==
  \E w \in Workers :
    /\ JustDecided(w)
    /\ pii_protect /\ meta[w].pii /\ ~meta[w].allow_processing
    /\ ~HoldRule(w) /\ ~ProtectedRule(w) /\ ~ClassRule(w)
    /\ meta[w].mask_profile = "X+T"
    /\ LowScore(w) /\ ~UnderBudget /\ ctx[w] < GateStage
    /\ plan[w].action = "mask" /\ plan[w].profile = "X+T"

\* C10 as claimed: with no class policy applying, delete is assigned only
\* at or above the storage budget and below the archive threshold, and
\* below the budget a low-score item is assigned archive.
LowScoreArchivedUnderBudget ==
  \A w \in Workers :
    (JustDecided(w) /\ ~ClassRule(w)) =>
      /\ plan[w].action = "delete" => (~UnderBudget /\ LowScore(w))
      /\ (UnderBudget /\ LowScore(w)) => plan[w].action = "archive"

\* C10 amended: with no class policy applying, delete is assigned only at
\* or above the storage budget and below the archive threshold; below the
\* budget a low-score item that none of the rules before the score
\* thresholds catches (regulatory hold, protected class, PII rule, high-risk
\* rule, irreversibility gate) is assigned archive.
UncaughtLowScoreArchivedUnderBudget ==
  \A w \in Workers :
    (JustDecided(w) /\ ~ClassRule(w)) =>
      /\ plan[w].action = "delete" => (~UnderBudget /\ LowScore(w))
      /\ (UnderBudget /\ LowScore(w) /\ BeforeGate(w) /\ ~GateRule(w)) =>
           plan[w].action = "archive"

\* C10 witness: a low-score item is assigned delete with the utilization
\* exactly at the storage budget.
DeletedExactlyAtBudget ==
  \E w \in Workers :
    /\ JustDecided(w)
    /\ ~ClassRule(w)
    /\ LowScore(w)
    /\ utilization.storage = StorageBudget
    /\ plan[w].action = "delete"

\* A caller whose process_item has finished its handler and its accounting.
Accounted(w) ==
  pc[w] \in {"log_read", "log_hash", "log_append"} /\ result[w] # NoResult

\* C11: a key_destroy plan applied to an item without allow_irreversible is
\* reported blocked and leaves the shared state as it was: the stage is the
\* one of the snapshot and the storage utilization is the one of the
\* snapshot.
BlockedKeyDestroyChangesNothing ==
  \A w \in Workers :
    (Accounted(w) /\ plan[w].action = "key_destroy"
       /\ ~meta[w].allow_irreversible) =>
      /\ result[w].status = "blocked"
      /\ stage = ctx[w]
      /\ utilization.storage = used0[w]

\* C12: in every reachable state both utilization counters are at least 0.
UtilizationNeverNegative ==
  utilization.storage >= 0 /\ utilization.semantic >= 0

\* C12 witness: a delete freed more than was in use (the utilization had
\* been raised above zero before) and the counter stopped at zero.
UsageFlooredAtZero ==
  \E w \in Workers :
    /\ Accounted(w)
    /\ plan[w].action = "delete"
    /\ used0[w] > 0
    /\ used0[w] - HandlerSaved(plan[w], meta[w]) + AccountDelta(plan[w], meta[w]) < 0
    /\ utilization.storage = 0

\* The storage the claim says an action frees: the declared size for delete
\* and key_destroy, half of it for archive, nothing for retain and preserve.
ClaimedFreed(w) ==
  CASE plan[w].action \in {"delete", "key_destroy"} -> Size(meta[w])
    [] plan[w].action = "archive" -> Size(meta[w]) \div 2
    [] OTHER -> 0

\* C13: a single process_item call lowers the storage utilization by the
\* amount its action frees, counted once and floored at zero.
FreedStorageCountedOnce ==
  \A w \in Workers :
    (Accounted(w)
       /\ plan[w].action \in {"delete", "key_destroy", "archive", "retain", "preserve"}) =>
      utilization.storage = Max(0, used0[w] - ClaimedFreed(w))

\* The order the claim gives for two input positions: lower score first,
\* equal scores in input order.
Before(i, j) ==
  \/ BatchScore(batch, i) < BatchScore(batch, j)
  \/ BatchScore(batch, i) = BatchScore(batch, j) /\ i < j

\* C14: process_batch invokes process_item in non-decreasing order of the
\* aggregate score, equal scores in input order: every item begun comes
\* before every item begun later and before every item not yet begun, and
\* the ledger entry of each item begun earlier is appended before the next
\* item is begun.
BatchProcessedInScoreOrder ==
  /\ \A a, b \in 1..Len(begun) : a < b => Before(begun[a], begun[b])
  /\ \A a \in 1..Len(begun) : \A j \in 1..Len(batch) :
       (\A b \in 1..Len(begun) : begun[b] # j) => Before(begun[a], j)
  /\ \A a \in 1..(Len(begun) - 1) :
       /\ Len(events) >= a
       /\ events[a].event.type = "record"
       /\ events[a].event.scores = batch[begun[a]].item.scores
       /\ events[a].event.meta.class = batch[begun[a]].item.meta.class

\* C14 witness: a batch of three given with its highest-scored item first
\* and two different items of equal score was processed to the end, the
\* equal ones first, in input order, the first input last.
BatchReorderedWithTie ==
  /\ runner = "returned"
  /\ Len(begun) = 3 /\ Len(events) = 3
  /\ begun = <<2, 3, 1>>
  /\ BatchScore(batch, 2) = BatchScore(batch, 3)
  /\ batch[2] # batch[3]
  /\ BatchScore(batch, 1) > BatchScore(batch, 2)

\* How often process_item was invoked on the i-th input.
TimesBegun(i) == Cardinality({a \in 1..Len(begun) : begun[a] = i})

\* The returned list holds one record per input, each at its input's index.
OneRecordPerInput ==
  /\ Len(results) = Len(batch)
  /\ \A k \in 1..Len(batch) :
       /\ results[k].meta = batch[k].item.meta
       /\ results[k].scores = batch[k].item.scores
       /\ results[k].result # NoResult

DoneTasks == {d[1] : d \in done}

FailureEntries(i) ==
  {k \in 1..Len(events) :
     /\ events[k].event.type = "error"
     /\ events[k].event.message = "worker_failure"
     /\ events[k].event.task = i}

CallbackCalled(i) == fut[i].state = "called"

\* C16: an exception in process_item or in the callback is caught for that
\* task and logged as exactly one worker_failure entry, a task that did not
\* fail gets none, and the worker stays in its loop: a worker thread ends
\* only after the shutdown signal.
WorkerSurvivesTaskFailure ==
  /\ \A w \in Workers : pc[w] = "exited" => stop_set
  /\ \A i \in DoneTasks :
       Cardinality(FailureEntries(i)) =
         IF ~CallbackCalled(i) \/ batch[i].cb_raises THEN 1 ELSE 0
  /\ \A i \in 1..Len(batch) : Cardinality(FailureEntries(i)) <= 1

\* C16 witness: a worker whose earlier task failed in process_item and was
\* logged has dequeued a later task and is processing it.
WorkerProcessesAfterFailure ==
  \E w \in Workers : \E i \in DoneTasks :
    /\ <<i, w>> \in done
    /\ ~CallbackCalled(i)
    /\ Cardinality(FailureEntries(i)) = 1
    /\ hand[w] # 0 /\ hand[w] # i
    /\ pc[w] = "apply"

\* C17 as claimed, its safety part: for every task marked done,
\* process_item was invoked on it exactly once and exactly one of the two
\* happened: its callback was called with the record, or a worker_failure
\* entry was logged.
DoneTaskHandledExactlyOneWay ==
  \A i \in DoneTasks :
    /\ TimesBegun(i) = 1
    /\ CallbackCalled(i) # (FailureEntries(i) # {})

\* C17 amended: while the queue is running every submitted task is
\* eventually marked done (or stop is called); process_item is invoked at
\* most once per task, and a task is marked done only after process_item
\* was invoked on it once and its callback was called with the record or a
\* worker_failure entry was logged (both, when the callback itself raised).
EverySubmittedTaskHandled ==
  /\ [](\A i \in 1..Len(batch) : TimesBegun(i) <= 1)
  /\ [](\A i \in DoneTasks :
          /\ TimesBegun(i) = 1
          /\ CallbackCalled(i) \/ FailureEntries(i) # {}
          /\ (CallbackCalled(i) /\ FailureEntries(i) # {}) <=> 
               (CallbackCalled(i) /\ batch[i].cb_raises))
  /\ \A i \in 1..MaxTasks :
       (Len(batch) >= i /\ runner = "started") ~> (i \in DoneTasks \/ stop_set)

\* C17 witness: the queue is running, both of two submitted tasks are done
\* (a join returns), one by its callback alone and one by a failure entry
\* alone.
JoinReturnsAfterBothKinds ==
  /\ runner = "started"
  /\ Len(batch) = 2 /\ DoneTasks = {1, 2}
  /\ \E i, j \in DoneTasks :
       /\ CallbackCalled(i) /\ FailureEntries(i) = {}
       /\ ~CallbackCalled(j) /\ FailureEntries(j) # {}

\* C18: every task handled by the work queue had its callback invoked with
\* a record, even when processing it failed.
EveryTaskYieldsRecord ==
  \A i \in DoneTasks : CallbackCalled(i) /\ fut[i].rec # NoRecord

\* C19: stop() puts exactly one None per started worker; after the signal
\* every worker thread eventually ends; and a task a worker has begun is
\* run to its end (marked done), stop or no stop.
StopEndsEveryWorker ==
  /\ [](sentinels <= NWorkers /\ (runner = "stopped" => sentinels = NWorkers))
  /\ stop_set ~> (\A w \in Workers : pc[w] = "exited")
  /\ \A i \in 1..MaxTasks :
       (\E a \in 1..Len(begun) : begun[a] = i) ~> (i \in DoneTasks)

\* C19 witness: stop() has returned with one None put per worker, every
\* worker has ended, a task was finished, and a None is left in the queue
\* (a worker ended on the signal after finishing its task).
StoppedAfterFinishingTask ==
  /\ runner = "stopped"
  /\ sentinels = NWorkers
  /\ \A w \in Workers : pc[w] = "exited"
  /\ DoneTasks # {}
  /\ \E k \in 1..Len(queue) : queue[k] = 0

\* C20: once the shutdown signal is set, no process_item call starts.
NoTaskStartsAfterStop == [][stop_set => begun' = begun]_vars

\* An id is kept in the tier of its latest move until a purge has run at or
\* after the expiry that move asked for, and is gone from every tier and
\* from ttl_map after such a purge.
KeptUntilSwept ==
  \A id \in ItemIds :
    given[id].due # Absent =>
      IF swept[id]
      THEN ttl_map[id] = Absent /\ \A t \in Dirs : tiers[t][id] = Absent
      ELSE tiers[given[id].tier][id] # Absent

\* The ids whose asked expiry has passed and that no purge has swept yet.
DueNow ==
  {id \in ItemIds : given[id].due # Absent /\ ~swept[id] /\ clock >= given[id].due}

\* C21: an item moved with a ttl stays in its tier until purge_expired runs
\* at or after its expiry; after that purge it is in no tier and not in
\* ttl_map, and the purge's removed count is the number of ids whose expiry
\* had passed.
ItemKeptUntilPurgedAtExpiry ==
  [][KeptUntilSwept' /\ (PurgeExpired => removed' = Cardinality(DueNow))]_vars

\* C22: an item whose most recent move supplied no ttl stays in its tier
\* through every purge, whatever moves of that id came before.
NoTtlNeverPurged ==
  \A id \in ItemIds :
    (given[id].tier # "none" /\ given[id].due = Absent)
      => tiers[given[id].tier][id] # Absent

\* C23: every id recorded in ttl_map is stored in exactly one of the tiers
\* hot, warm, cold.
TtlIdInExactlyOneTier ==
  \A id \in ItemIds :
    ttl_map[id] # Absent
      => Cardinality({t \in Tiers : tiers[t][id] # Absent}) = 1

\* C24: under any interleaving of moves and purges, no id is in the expiry
\* map without stored content.
NoExpiryWithoutContent ==
  \A id \in ItemIds :
    ttl_map[id] # Absent => \E t \in Dirs : tiers[t][id] # Absent

\* The run has ended: it returned or an exception left it.
PipeRaised == pipe \in {"raised_batch", "raised_sleep", "raised_delete"}

\* The position in results of the record of the input pair with id i.
RecordOf(i) == CHOOSE k \in 1..Len(results) : batch[order[k]].id = i

\* C25: run calls delete_item for every item whose action is delete or
\* key_destroy, the call removes the id from every tier, and the run still
\* returns its results.
DeleteActionRemovesItem ==
  /\ pipe # "raised_delete"
  /\ pipe = "returned" =>
       \A k \in 1..Len(results) :
         PipeAction(k) \in DeleteActions =>
           \A t \in Dirs : tiers[t][batch[order[k]].id] = Absent

\* C28: a failed move_to_tier call does not make run raise: the move is
\* tried at most three times, and when all three fail one
\* storage_move_failed error entry is in the ledger.
MoveFailureRetriedNotRaised ==
  /\ attempts <= 3
  /\ pipe # "raised_sleep"
  /\ (pipe = "loop" /\ attempts = 3) =>
       Cardinality({e \in 1..Len(events) :
                      /\ events[e].event.type = "error"
                      /\ events[e].event.message = "storage_move_failed"}) = 1

\* C29: every storage call of a run is made with the id, content and ttl
\* of one item and with the action decided for that same item: archive
\* into cold with the item's ttl, preserve into hot, mask into warm with
\* the redacted preview of its own content, compress into warm.
StorageStepUsesOwnAction ==
  \A j \in 1..Len(steps) :
    LET st == steps[j]
        own == results[RecordOf(st.id)].plan.action
        ttl == IF batch[st.id].archive_ttl = Absent THEN DefaultTtl
               ELSE batch[st.id].archive_ttl
    IN  st.call = "move_to_tier" =>
             /\ st.action = own
             /\ own = "archive" => st.tier = "cold" /\ st.ttl = ttl
             /\ own = "preserve" => st.tier = "hot"
             /\ own \in {"mask", "compress"} => st.tier = "warm"
             /\ st.content =
                  IF own = "mask" THEN Redacted(Content(st.id)) ELSE Content(st.id)

\* C27: an item whose action has no registered handler does not stop
\* process_batch: the run does not end with the exception, the error is in
\* the ledger, and every other item has been processed and has its record
\* in the list returned.
BatchSurvivesConfigurationError ==
  /\ runner # "raised"
  /\ runner = "returned" =>
       \A i \in 1..Len(batch) :
         IF Select(batch[i].item.scores, batch[i].item.meta, DefaultThresholds,
                   class_policies, pii_protect, 0, 0).action \in Registry
         THEN TimesBegun(i) = 1
         ELSE \E e \in 1..Len(events) : events[e].event.type = "error"

\* C26: when select returns an action with no registered handler,
\* process_item raises to its caller: no handler is applied, nothing is
\* logged, and the stage and the budget utilization are what they were when
\* the call began.
UnknownActionRaisesUntouched ==
  [][\A w \in Workers :
       /\ (pc[w] = "select" /\ pc'[w] # "select" /\ plan'[w].action \notin Registry)
            => pc'[w] = "raised"
       /\ pc'[w] \in {"apply", "usage", "account"} => plan'[w].action \in Registry
       /\ pc'[w] = "raised" =>
            /\ result'[w] = NoResult
            /\ stage' = ctx'[w]
            /\ utilization'.storage = used0'[w]
       /\ (pc[w] = "raised" /\ pc'[w] # "raised") =>
            /\ pc'[w] \in {"idle", "failed"}
            /\ UNCHANGED <<stage, utilization, thresholds, events>>
            /\ result'[w] = NoResult]_vars

\* C26 witness: a call on an item of class legacy (policy action "purge",
\* no handler) has raised, from a stage past the gate and a storage
\* utilization above the budget.
UnknownActionRaised ==
  \E w \in Workers :
    /\ pc[w] = "raised"
    /\ plan[w].action = "purge"
    /\ stage = DestroyStage
    /\ utilization.storage > StorageBudget

\* A threshold after one event: moved by 0.05 towards its limit, or put on
\* the limit.
Raised(old, new, cap) == new = (IF old + 500 <= cap THEN old + 500 ELSE cap)
Lowered(old, new, floor) == new = (IF old - 500 >= floor THEN old - 500 ELSE floor)

\* C30: from the default thresholds, after any sequence of update events
\* archive stays in [0.1, 0.4] and mask in [0.25, 0.5];
\* false_positive_delete raises each by 0.05 up to its cap,
\* unnecessary_retain lowers each by 0.05 down to its floor, and any other
\* event type, or an optimizer without a decision engine, changes nothing.
ThresholdsStayInBounds ==
  [][LET ev == updates'[Len(updates')]
     IN  /\ 1000 <= thresholds'.archive /\ thresholds'.archive <= 4000
         /\ 2500 <= thresholds'.mask /\ thresholds'.mask <= 5000
         /\ thresholds'.preserve = thresholds.preserve
         /\ thresholds'.compress = thresholds.compress
         /\ IF attached /\ ev = "false_positive_delete"
            THEN /\ Raised(thresholds.archive, thresholds'.archive, 4000)
                 /\ Raised(thresholds.mask, thresholds'.mask, 5000)
            ELSE IF attached /\ ev = "unnecessary_retain"
            THEN /\ Lowered(thresholds.archive, thresholds'.archive, 1000)
                 /\ Lowered(thresholds.mask, thresholds'.mask, 2500)
            ELSE thresholds' = thresholds]_vars

\* C30 witness: after four false_positive_delete events both thresholds are
\* on their caps, and a fifth has left them there.
ThresholdsHeldAtCaps ==
  /\ Len(updates) = 5
  /\ \A k \in 1..5 : updates[k] = "false_positive_delete"
  /\ thresholds.archive = 4000
  /\ thresholds.mask = 5000


\* Does name list dims name exactly the dimensions of the profile, once each?
Names(dims, profile) ==
  /\ Len(dims) = Cardinality(ProfileDims(profile))
  /\ {dims[i] : i \in 1..Len(dims)} = ProfileDims(profile)

\* Half a unit of the table's last (fifth) decimal, in 1e-8.
HalfUlp == Unit \div 200000

\* The table's rate of a profile in the unit of a returned ratio.
TableRate(profile) == MaskRate(profile) * 1000

\* C31: every profile's mask_rate in the table equals the product formula
\* 1 - prod(1 - rate_d) over its dimensions to the table's precision, and
\* the X+Y+Z+T rate is strictly greater than every three-dimension rate.
TableRateIsProductOfRates ==
  /\ \A p \in MaskingProfiles :
       (ratio # Absent /\ Names(dimensions, p))
         => /\ TableRate(p) - ratio <= HalfUlp
            /\ ratio - TableRate(p) <= HalfUlp
  /\ \A p \in MaskingProfiles :
       Cardinality(ProfileDims(p)) = 3 => MaskRate("X+Y+Z+T") > MaskRate(p)


\* C32: whenever the reversibility snapshot is 7 or more and no earlier
\* rule applies (regulatory hold, protected class, class policy, PII rule,
\* high-risk rule), select returns retain or key_destroy whatever the scores
\* and the budget state are, and retain for an item without
\* allow_irreversible.
GateOverridesScores ==
  \A w \in Workers :
    (Decided(w) /\ GateRule(w) /\ BeforeGate(w)) =>
      /\ plan[w].action \in {"retain", "key_destroy"}
      /\ ~meta[w].allow_irreversible => plan[w].action = "retain"

\* C32 witness: at the gate, with storage at the budget, an item the score
\* rules would have deleted is retained.
DeletableItemRetainedAtGate ==
  \E w \in Workers :
    /\ Decided(w) /\ GateRule(w) /\ BeforeGate(w)
    /\ ~meta[w].allow_irreversible
    /\ LowScore(w) /\ used0[w] >= StorageBudget
    /\ plan[w].action = "retain"


\* A plan chosen by the score thresholds: no earlier rule applied and the
\* snapshot was below the gate.
ScorePlanned(w) == BeforeGate(w) /\ ~GateRule(w)

\* C33: under parallel-batch processing a plan chosen by the score
\* thresholds is never applied in a state whose reversibility stage has
\* already reached 7: the handler runs at the stage its own gate check saw.
ScorePlanNeverAppliedPastGate ==
  [][\A w \in Workers : (Apply(w) /\ ScorePlanned(w)) => stage < GateStage]_vars


\* The floor each action is specified to bring the stage to; archive and a
\* blocked key_destroy have none.
StageFloor(pl, m) ==
  CASE pl.action \in {"retain", "preserve"} -> 0
    [] pl.action = "compress" -> IF pl.lossy THEN 5 ELSE 1
    [] pl.action = "mask" -> 4
    [] pl.action = "semantic_preserve" -> 6
    [] pl.action = "delete" -> 7
    [] pl.action = "key_destroy" /\ m.allow_irreversible -> 9
    [] OTHER -> 0

\* C34: a handler applied at stage s leaves the stage at max(s, floor), the
\* floor being 0 for retain and preserve, 1 for lossless and 5 for lossy
\* compress, 4 for mask, 6 for semantic_preserve, 7 for delete and 9 for an
\* allowed key_destroy; archive leaves the stage unchanged; and the stage
\* always lies in 0..9.
StageRaisedToActionFloor ==
  /\ [](stage \in 0..9)
  /\ [][\A w \in Workers :
          Apply(w) => stage' = Max(stage, StageFloor(plan[w], meta[w]))]_vars

\* C34 witness: a lossy compress applied at stage 0 has left the stage at 5.
LossyCompressRaisedStage ==
  \E w \in Workers :
    /\ Applied(w)
    /\ plan[w].action = "compress" /\ plan[w].lossy
    /\ ctx[w] = 0
    /\ stage = 5


\* The ledger's non-error entries, in order.
NonError(e) == e.event.type # "error"
NonErrorEntries(ev) == SelectSeq(ev, NonError)

\* The step in which w's process_item call returns its record.
Returns(w) == pc[w] # "returned" /\ pc'[w] = "returned"

\* C35: every process_item call that returns appends exactly one ledger
\* entry carrying that item's scores, plan, result, context and constraint
\* flags, and nothing else adds or removes a non-error entry: the non-error
\* entries correspond one to one, in order, to the calls that returned.
OneEntryPerReturnedCall ==
  [][LET old == NonErrorEntries(events)
         new == NonErrorEntries(events')
     IN  IF \E w \in Workers : Returns(w)
         THEN \E w \in Workers :
                /\ Returns(w)
                /\ Len(new) = Len(old) + 1
                /\ SubSeq(new, 1, Len(old)) = old
                /\ new[Len(new)].event = ItemRecord(w)
                /\ events'[Len(events')] = new[Len(new)]
         ELSE new = old]_vars

\* C35 witness: two calls returned, the first one's callback failed; the
\* ledger holds their two records with the error entry between them.
TwoRecordsAroundAnError ==
  /\ Len(events) = 3
  /\ events[1].event.type = "record"
  /\ events[2].event.type = "error"
  /\ events[3].event.type = "record"
  /\ Cardinality(DoneTasks) = 2


\* A caller whose record has been handed to Ledger.log.
Logging(w) ==
  pc[w] \in {"log_read", "log_hash", "log_append"} /\ ser[w].event.type = "record"

\* C36: the context snapshot in an item's ledger record shows the storage
\* utilization and the reversibility stage the decision engine was given
\* for that item: the state before its handler and accounting ran.
RecordShowsStateGivenToEngine ==
  \A w \in Workers :
    Logging(w) =>
      /\ ser[w].event.reversibility_stage = ctx[w]
      /\ Payload(ser[w]).budget_state.utilization.storage = used0[w]


\* C37: after any sequence of update events from the default thresholds
\* they remain strictly decreasing: preserve > compress > mask > archive.
ThresholdsStrictlyDecreasing ==
  /\ thresholds.preserve > thresholds.compress
  /\ thresholds.compress > thresholds.mask
  /\ thresholds.mask > thresholds.archive


\* The ledger entries of items that were assigned delete, and the caller
\* holding a delete plan whose record is not in the ledger yet.
DeleteEntries ==
  {k \in 1..Len(events) :
     events[k].event.type = "record" /\ events[k].event.plan.action = "delete"}
DeletePlanned == {w \in Workers : Decided(w) /\ plan[w].action = "delete"}

\* C38: in sequential processing with no class policies at most one item
\* per session is assigned delete: once a delete has been applied, every
\* item not caught by an earlier rule is assigned retain or key_destroy,
\* whatever the storage utilization is.
AtMostOneDeletePerSession ==
  class_policies = NoPolicies =>
    /\ Cardinality(DeleteEntries) + Cardinality(DeletePlanned) <= 1
    /\ \A w \in Workers :
         (Decided(w) /\ BeforeGate(w) /\ DeleteEntries # {}) =>
           plan[w].action \in {"retain", "key_destroy"}

\* C38 witness: after one delete, with storage still at or above the
\* budget, a second worthless item has been assigned retain.
SecondWorthlessItemRetained ==
  /\ class_policies = NoPolicies
  /\ DeleteEntries # {}
  /\ \E w \in Workers :
       /\ Decided(w) /\ BeforeGate(w)
       /\ LowScore(w) /\ used0[w] >= StorageBudget
       /\ plan[w].action = "retain"


\* C39: no step of a process_item call increases the storage utilization,
\* and no item is assigned delete by the score rules while the utilization
\* has been below the budget since the last external record_usage call
\* with a positive delta.
NoDeleteFromBelowBudget ==
  [][/\ (\E w \in Workers : pc'[w] # pc[w])
          => utilization'.storage <= utilization.storage
     /\ \A w \in Workers :
          (pc[w] = "select" /\ ScorePlanned(w) /\ plan'[w].action = "delete")
            => ~quiet]_vars

\* C39 witness: with half the budget in use a worthless item was archived
\* for lack of pressure, and its handler and accounting have since freed
\* storage.
WorthlessItemArchivedBelowBudget ==
  \E w \in Workers :
    /\ quiet
    /\ pc[w] = "log_read"
    /\ ScorePlanned(w) /\ LowScore(w)
    /\ used0[w] > 0
    /\ plan[w].rationale = "Low score but no pressure -> archive"
    /\ utilization.storage < used0[w]


\* The feedback event types the handlers of the default registry return.
HandlerEvents ==
  {"cache_retain", "compress_success", "mask_applied", "semantic_preserve",
   "archived", "deleted", "irreversible_blocked", "irreversible_success"}

\* C40: with the default registry every feedback event a handler returns is
\* one of the eight handler events, no step of a process_item call changes
\* the thresholds, and the thresholds change only in a direct update() call
\* that raises or lowers archive and mask (false_positive_delete or
\* unnecessary_retain).
ThresholdsChangeOnlyByDirectUpdate ==
  /\ [](\A w \in Workers : Applied(w) => result[w].feedback \in HandlerEvents)
  /\ [][(\E w \in Workers : pc'[w] # pc[w]) => thresholds' = thresholds]_vars
  /\ [][thresholds' # thresholds =>
          /\ calls' = calls + 1
          /\ \/ /\ Raised(thresholds.archive, thresholds'.archive, 4000)
                /\ Raised(thresholds.mask, thresholds'.mask, 5000)
             \/ /\ Lowered(thresholds.archive, thresholds'.archive, 1000)
                /\ Lowered(thresholds.mask, thresholds'.mask, 2500)]_vars

\* C40 witness: after a direct false_positive_delete update a mask handler's
\* feedback has been given to the optimizer and the thresholds are as the
\* direct update left them.
MaskFeedbackLeftThresholds ==
  \E w \in Workers :
    /\ pc[w] = "log_read"
    /\ result[w].feedback = "mask_applied"
    /\ thresholds = [DefaultThresholds EXCEPT !.archive = 2500, !.mask = 4000]

=============================================================================
